---------------------------- MODULE Spec2Model ----------------------------
(***************************************************************************)
(* A model of the mysql-router charm (src/lib/charm/openstack/             *)
(* mysql_router.py and reactive/mysql_router_handlers.py).                 *)
(*                                                                         *)
(* The charm is single threaded: every operation below is one atomic       *)
(* action.  The parts of the charm are modelled each with its own          *)
(* specification over the same variables:                                  *)
(*   SpecRequests   proxy_db_and_user_requests  (shared-db -> db-router)   *)
(*   SpecResponses  proxy_db_and_user_responses (db-router -> shared-db)   *)
(*   SpecPatch      update_config_parameters on mysqlrouter.conf           *)
(*   SpecBootstrap  bootstrap_mysqlrouter and the durable flags            *)
(*   SpecRestart    custom_restart_function and the connection checks      *)
(*   SpecHandlers   the reactive handlers and the flags that gate them     *)
(*   SpecConfig     config_changed under restart_on_change                 *)
(*   SpecService    start, stop and restart of the service, and            *)
(*                  custom_assess_status_check                             *)
(*   SpecUpgrade    upgrade_charm on the file an older charm left          *)
(*   SpecLifecycle  the flags over bootstrap, start, stop and cleanup      *)
(*   SpecReconcile  the hooks that rewrite the file and restart the        *)
(*                  service, among the handlers                            *)
(* Python strings are TLA+ strings; Python's None is the string None.      *)
(***************************************************************************)
EXTENDS Integers, Sequences, FiniteSets, TLC

VARIABLES
    received,       \* shared-db: all_joined_units.received, a dict (key order kept)
    proxy_calls,    \* the configure_proxy_db calls of the last request pass
    req_ran,        \* TRUE when proxy_calls belongs to the present value of received
    up_prefixes,    \* db-router: what the cluster published, one entry per prefix,
                    \*   in get_prefixes() order: [prefix, password, allowed_units]
    up_wait_timeout,\* db-router: wait_timeout(), raw (JSON) or None
    up_ssl_ca,      \* db-router: ssl_ca(), raw (JSON) or None
    joined_units,   \* shared-db: all_joined_units, the unit names (at most one)
    raw_ssl_ca,     \* shared-db: to_publish_raw["ssl_ca"] of the client relation
    published,      \* the set_db_connection_info calls of the last response pass
    resp_ran,       \* TRUE when published belongs to the present relation data
    up_read,        \* TRUE when the last response pass called get_prefixes()
    conf,           \* mysqlrouter.conf on disk: whether it exists, its content
    conf_size,      \* os.path.getsize(mysqlrouter.conf), 0 when there is no file
    patch_last,     \* the last update_config_parameters call: its parameters, and
                    \*   whether the call before it had the same parameters
    config_last,    \* the last config_changed or upgrade_charm call: the hook
                    \*   it ran in, what it found and did
    flags,          \* reactive.flags: the set of flags that are set
    boot_last,      \* the last bootstrap_mysqlrouter call: its argument, the
                    \*   command it ran, its flag calls, its write, its outcome,
                    \*   the flags and the file as the command found them,
                    \*   the outcome of the call before it, and the parity of
                    \*   the number of calls so far
    validate_last,  \* the last validate_configuration call: what it saw of the
                    \*   file and whether it called bootstrap_mysqlrouter
    restart,        \* the custom_restart_function call: where it stands, its
                    \*   attempts, what it did so far
    last_check,     \* the last check_mysql_connection call and its result
    assess_last,    \* the last custom_assess_status_check call: the checks it
                    \*   ran, what they returned, what it returned
    service,        \* the mysqlrouter service: "stopped" or "running"
    handler_last,   \* the reactive handler that ran last and the flags it saw
    history,        \* whether a bootstrap ever succeeded, whether
                    \*   start_mysqlrouter ever ran
    service_last    \* the last of start_mysqlrouter, stop_mysqlrouter and
                    \*   restart_mysqlrouter, and the state it was called in

reqVars  == <<received, proxy_calls, req_ran>>
respVars == <<up_prefixes, up_wait_timeout, up_ssl_ca, joined_units,
              raw_ssl_ca, published, resp_ran, up_read>>
confVars == <<conf, conf_size, patch_last, config_last>>
bootVars == <<flags, boot_last, validate_last>>
restartVars == <<restart, last_check, assess_last>>
handVars == <<service, handler_last, history, service_last>>
vars == <<reqVars, respVars, confVars, bootVars, restartVars, handVars>>

None == "None"

(***************************************************************************)
(* Python strings and dicts.                                               *)
(***************************************************************************)

\* s[i] of a Python string (1-based here)
CharAt(s, i) == SubSeq(s, i, i)

\* Python: a in b, for two strings (substring test)
StrIn(a, b) == \E i \in 0..(Len(b) - Len(a)) : SubSeq(b, i + 1, i + Len(a)) = a

\* Python: s.startswith(p)
StartsWith(s, p) == Len(p) <= Len(s) /\ SubSeq(s, 1, Len(p)) = p

\* Position of the first occurrence of the character c in s, 0 when absent
IndexOf(s, c) ==
    IF \E i \in 1..Len(s) : CharAt(s, i) = c
    THEN CHOOSE i \in 1..Len(s) :
            CharAt(s, i) = c /\ \A j \in 1..(i - 1) : CharAt(s, j) # c
    ELSE 0

\* Python: s.split(sep), sep one character
RECURSIVE split(_, _)
split(s, sep) ==
    LET i == IndexOf(s, sep)
    IN  IF i = 0 THEN <<s>>
        ELSE <<SubSeq(s, 1, i - 1)>> \o split(SubSeq(s, i + 1, Len(s)), sep)

\* Python: sep.join(parts)
RECURSIVE join(_, _)
join(sep, parts) ==
    IF Len(parts) = 0 THEN ""
    ELSE IF Len(parts) = 1 THEN parts[1]
    ELSE parts[1] \o sep \o join(sep, Tail(parts))

\* A Python dict is a sequence of <<key, value>> pairs with distinct keys,
\* in insertion order.
DictKeys(d) == {d[i][1] : i \in DOMAIN d}

\* d.get(k)
DictGet(d, k) ==
    IF k \in DictKeys(d)
    THEN LET i == CHOOSE i \in DOMAIN d : d[i][1] = k IN d[i][2]
    ELSE None

\* d[k] = v: in place for a key already present, appended otherwise
DictSet(d, k, v) ==
    IF k \in DictKeys(d)
    THEN [i \in DOMAIN d |-> IF d[i][1] = k THEN <<k, v>> ELSE d[i]]
    ELSE Append(d, <<k, v>>)

\* d.pop(k)
DictPop(d, k) == SelectSeq(d, LAMBDA e : e[1] # k)


(***************************************************************************)
(* Request direction: proxy_db_and_user_requests.                          *)
(***************************************************************************)

\* MySQLRouterCharm._unprefixed
_unprefixed == "MRUP"

singleset == {"database", "username", "hostname"}

\* The first step of get_db_data: a bag holding the three bare keys has them
\* renamed to <unprefixed>_hostname, _database, _username (in that order).
RenameSingleset(settings, unprefixed) ==
    LET s1 == DictPop(DictSet(settings, unprefixed \o "_" \o "hostname",
                              DictGet(settings, "hostname")), "hostname")
        s2 == DictPop(DictSet(s1, unprefixed \o "_" \o "database",
                              DictGet(s1, "database")), "database")
        s3 == DictPop(DictSet(s2, unprefixed \o "_" \o "username",
                              DictGet(s2, "username")), "username")
    IN  s3

\* The loop of get_db_data over settings.items(), from item i on: databases
\* is an ordered dict from db (the key's part before its first "_") to an
\* ordered dict of the rest of the key to the value.
RECURSIVE GroupSettings(_, _, _)
GroupSettings(settings, i, databases) ==
    IF i > Len(settings) THEN databases
    ELSE LET k  == settings[i][1]
             v  == settings[i][2]
             db == split(k, "_")[1]
             x  == join("_", Tail(split(k, "_")))
             d1 == IF db \in DictKeys(databases) THEN databases
                   ELSE Append(databases, <<db, <<>>>>)
         IN  GroupSettings(settings, i + 1,
                           DictSet(d1, db, DictSet(DictGet(d1, db), x, v)))

\* get_db_data with the singleset step left out (a faulty variant)
get_db_data_no_singleset(relation_data, unprefixed) ==
    GroupSettings(relation_data, 1, <<>>)

\* charmhelpers' get_db_data, as the unit tests reproduce it
get_db_data(relation_data, unprefixed) ==
    LET settings == IF singleset \subseteq DictKeys(relation_data)
                    THEN RenameSingleset(relation_data, unprefixed)
                    ELSE relation_data
    IN  GroupSettings(settings, 1, <<>>)

\* A faulty variant of ProxyCalls: the loop stops after its first prefix
ProxyCallsFirstOnly(db_data) ==
    [i \in 1..(IF Len(db_data) > 0 THEN 1 ELSE 0) |->
        [database |-> DictGet(db_data[i][2], "database"),
         username |-> DictGet(db_data[i][2], "username"),
         hostname |-> DictGet(db_data[i][2], "hostname"),
         prefix   |-> db_data[i][1]]]

\* The loop of proxy_db_and_user_requests: one configure_proxy_db call for
\* every prefix of db_data, in order
ProxyCalls(db_data) ==
    [i \in DOMAIN db_data |->
        [database |-> DictGet(db_data[i][2], "database"),
         username |-> DictGet(db_data[i][2], "username"),
         hostname |-> DictGet(db_data[i][2], "hostname"),
         prefix   |-> db_data[i][1]]]

\* The number of key groups the client may have written (a bound of the model)
MaxChunks == 3

\* The value the client sets for key k
Val(k) == "v:" \o k

\* What a client unit writes on shared-db in one go: the bare triple, the
\* triple of a prefix, or keys that belong to no complete request.
RequestChunks ==
    { <<"database", "username", "hostname">>,
      <<"nova_database", "nova_username", "nova_hostname">>,
      <<"novaapi_database", "novaapi_username", "novaapi_hostname">>,
      <<"novacell0_database", "novacell0_username">>,
      <<"nova_api_database">>,
      <<"MRUP_database">>,
      <<"private-address">> }

RECURSIVE SetAll(_, _)
SetAll(d, ks) ==
    IF Len(ks) = 0 THEN d
    ELSE SetAll(DictSet(d, Head(ks), Val(Head(ks))), Tail(ks))

NumChunks(d) == Cardinality({c \in RequestChunks : DictKeys(d) \cap {c[i] : i \in DOMAIN c} # {}})

\* Nothing received, nothing forwarded
IdleRequests ==
    /\ received = <<>>
    /\ proxy_calls = <<>>
    /\ req_ran = FALSE

\* No relation data, no unit joined, nothing published
IdleResponses ==
    /\ up_prefixes = <<>>
    /\ up_wait_timeout = None
    /\ up_ssl_ca = None
    /\ joined_units = <<>>
    /\ raw_ssl_ca = None
    /\ published = <<>>
    /\ resp_ran = FALSE
    /\ up_read = FALSE

\* No configuration file, no call made
NoFile == [exists |-> FALSE, defaults |-> <<>>, sections |-> <<>>]

\* config_changed not called
NoConfigChanged ==
    [op |-> "none", hook |-> "none", skipped |-> FALSE, existed |-> FALSE,
     changed |-> FALSE, restarted |-> FALSE, calls |-> 0, upgrades |-> 0,
     removed |-> FALSE, pkgver |-> <<0, 0, 0>>, ssl_ca |-> None]

IdleConf ==
    /\ conf = NoFile
    /\ conf_size = 0
    /\ patch_last = [op |-> "none", parameters |-> <<>>, repeated |-> FALSE]
    /\ config_last = NoConfigChanged

\* No flag set, bootstrap_mysqlrouter not called
NoBootstrap ==
    [op |-> "none", caller |-> "none", force |-> FALSE,
     was_bootstrapped |-> FALSE, was_attempted |-> FALSE,
     cmd |-> <<>>, set_flag |-> <<>>, clear_flag |-> <<>>,
     tried_write |-> FALSE, wrote |-> FALSE,
     flags_at_invoke |-> {}, conf_at_invoke |-> NoFile,
     outcome |-> "none", after |-> "none", calls |-> 0]

\* validate_configuration not called
NoValidate == [op |-> "none", exists |-> FALSE, size |-> 0, called |-> FALSE]

IdleBoot ==
    /\ flags = {}
    /\ boot_last = NoBootstrap
    /\ validate_last = NoValidate

\* No error
NoError == [kind |-> "none", code |-> 0]

\* custom_restart_function not called
NoRestart ==
    [status |-> "idle", attempt |-> 0, events |-> <<>>,
     probe_status |-> "none", probe_attempt |-> 0, codes |-> <<>>,
     stops |-> 0, starts |-> 0, connects |-> 0, error |-> NoError]

\* check_mysql_connection not called
NoCheck ==
    [op |-> "none", reraise_on |-> {}, outcome |-> NoError,
     raised |-> FALSE, ret |-> "None"]

\* custom_assess_status_check not called
NoAssess ==
    [op |-> "none", ran |-> <<>>, results |-> <<>>, status_set |-> <<>>,
     probed |-> FALSE, raised |-> FALSE, ret |-> <<>>, calls |-> 0]

IdleRestart ==
    /\ restart = NoRestart
    /\ last_check = NoCheck
    /\ assess_last = NoAssess

\* None of start_mysqlrouter, stop_mysqlrouter, restart_mysqlrouter called
NoServiceCall ==
    [op |-> "none", before |-> [service |-> "stopped", flags |-> {}]]

\* The service is not running, no handler has run
IdleHandlers ==
    /\ service = "stopped"
    /\ handler_last = [name |-> "none", flags |-> {}]
    /\ history = [bootstrap_succeeded |-> FALSE, start_ran |-> FALSE]
    /\ service_last = NoServiceCall

InitRequests ==
    IdleRequests /\ IdleResponses /\ IdleConf /\ IdleBoot /\ IdleRestart /\ IdleHandlers

\* The client unit sets keys of its relation data
shared_db_relation_set(chunk) ==
    /\ ~({chunk[i] : i \in DOMAIN chunk} \subseteq DictKeys(received))
    /\ NumChunks(received) < MaxChunks
    /\ received' = SetAll(received, chunk)
    /\ proxy_calls' = <<>>
    /\ req_ran' = FALSE
    /\ UNCHANGED <<respVars, confVars, bootVars, restartVars, handVars>>

proxy_db_and_user_requests ==
    /\ proxy_calls' = ProxyCalls(get_db_data(received, _unprefixed))
    /\ req_ran' = TRUE
    /\ UNCHANGED <<received, respVars, confVars, bootVars, restartVars, handVars>>

NextRequests ==
    \/ \E chunk \in RequestChunks : shared_db_relation_set(chunk)
    \/ proxy_db_and_user_requests

SpecRequests == InitRequests /\ [][NextRequests]_vars

(***************************************************************************)
(* Claims about the request direction.                                     *)
(***************************************************************************)

\* C8: a request bag holding the bare keys database, username and hostname
\* yields exactly one configure_proxy_db call with prefix 'MRUP', carrying
\* the three bare values; when the bag holds nothing else, it is the only
\* call of the pass.
C8_BareRequestOneCall ==
    (req_ran /\ singleset \subseteq DictKeys(received)) =>
        /\ Cardinality({i \in DOMAIN proxy_calls :
                            proxy_calls[i].prefix = "MRUP"}) = 1
        /\ \A i \in DOMAIN proxy_calls :
              proxy_calls[i].prefix = "MRUP" =>
                 /\ proxy_calls[i].database = DictGet(received, "database")
                 /\ proxy_calls[i].username = DictGet(received, "username")
                 /\ proxy_calls[i].hostname = DictGet(received, "hostname")
        /\ (DictKeys(received) = singleset => Len(proxy_calls) = 1)

C8_Witness ==
    /\ req_ran
    /\ DictKeys(received) = singleset
    /\ proxy_calls = <<[database |-> "v:database", username |-> "v:username",
                        hostname |-> "v:hostname", prefix |-> "MRUP"]>>

\* p is the part of key k before its first underscore
KeyHasPrefix(k, p) == ~StrIn("_", p) /\ (k = p \/ StartsWith(k, p \o "_"))

\* C9: for a request bag without the bare triple, the configure_proxy_db
\* calls of a pass are one per distinct prefix (the part of a key before its
\* first underscore), and the call of prefix p carries the values of
\* p_database, p_username and p_hostname (None for a key the bag lacks).
C9_OneCallPerPrefix ==
    (req_ran /\ ~(singleset \subseteq DictKeys(received))) =>
        /\ \A k \in DictKeys(received) :
              Cardinality({i \in DOMAIN proxy_calls :
                              KeyHasPrefix(k, proxy_calls[i].prefix)}) = 1
        /\ \A i \in DOMAIN proxy_calls :
              LET c == proxy_calls[i]
              IN  /\ \E k \in DictKeys(received) : KeyHasPrefix(k, c.prefix)
                  /\ c.database = DictGet(received, c.prefix \o "_database")
                  /\ c.username = DictGet(received, c.prefix \o "_username")
                  /\ c.hostname = DictGet(received, c.prefix \o "_hostname")

C9_Witness ==
    /\ req_ran
    /\ DictKeys(received) = {"nova_database", "nova_username", "nova_hostname",
                             "novaapi_database", "novaapi_username",
                             "novaapi_hostname"}
    /\ {proxy_calls[i].prefix : i \in DOMAIN proxy_calls} = {"nova", "novaapi"}
    /\ Len(proxy_calls) = 2

\* C39 (as claimed; the code does not satisfy it): a pass makes a
\* configure_proxy_db call only for a prefix whose database, username and
\* hostname are all in the request bag; no call carries a missing (None)
\* database, username or hostname.
C39_OnlyCompleteRequests ==
    req_ran =>
        \A i \in DOMAIN proxy_calls :
            /\ proxy_calls[i].database # None
            /\ proxy_calls[i].username # None
            /\ proxy_calls[i].hostname # None
            /\ \/ singleset \subseteq DictKeys(received)
               \/ {proxy_calls[i].prefix \o "_" \o f : f \in singleset}
                      \subseteq DictKeys(received)

(***************************************************************************)
(* Response direction: proxy_db_and_user_responses.                        *)
(***************************************************************************)

\* MySQLRouterCharm.db_prefix
db_prefix == "mysqlrouter"

\* ch_core.hookenv.local_unit(): the name of this mysql-router unit
local_unit == "mr/1"

\* MySQLRouterCharm.shared_db_address
shared_db_address == "127.0.0.1"

\* MySQLRouterCharm.mysqlrouter_port (options.base_port)
mysqlrouter_port == "base_port"

\* unit.relation.relation_id of the joined client unit
relation_id == "shared-db:5"

\* json.dumps of a string without characters to escape
JsonDumps(str) == "\"" \o str \o "\""

\* json.loads of a JSON string ("..." -> ...) or of a JSON number
JsonLoads(j) ==
    IF StartsWith(j, "\"") THEN SubSeq(j, 2, Len(j) - 1)
    ELSE "int(" \o j \o ")"

\* Python truth of a value the interface returns: None and '' are false
Truthy(x) == x # None /\ x # ""

\* receiving_interface.get_prefixes()
get_prefixes == [i \in DOMAIN up_prefixes |-> up_prefixes[i].prefix]

UpEntry(prefix) ==
    up_prefixes[CHOOSE i \in DOMAIN up_prefixes : up_prefixes[i].prefix = prefix]

\* receiving_interface.password(prefix=prefix)
password(prefix) == UpEntry(prefix).password

\* receiving_interface.allowed_units(prefix=prefix)
allowed_units(prefix) == UpEntry(prefix).allowed_units

\* A faulty variant of IsOwnPrefix: the router's credentials are not withheld
IsOwnPrefixNever(prefix) == FALSE

\* "if prefix in self.db_prefix: continue", a test on two strings
IsOwnPrefix(prefix) == StrIn(prefix, db_prefix)

\* The allowed_units argument: the joined unit's name when local_unit() is
\* "in" the decoded allowed_units of the prefix
AllowedHosts(prefix, unit) ==
    IF StrIn(local_unit, JsonLoads(allowed_units(prefix))) THEN unit ELSE None

\* "if prefix in self._unprefixed: prefix = None"
TranslatePrefix(prefix) == IF StrIn(prefix, _unprefixed) THEN None ELSE prefix

\* A faulty variant of ResetSslCa: a value published before is left alone
ResetSslCaNever(ssl_ca, raw) == raw

\* to_publish_raw["ssl_ca"] after "if _ssl_ca: ... else:
\* to_publish_raw["ssl_ca"] = None", raw being its value before
ResetSslCa(ssl_ca, raw) == IF Truthy(ssl_ca) THEN raw ELSE None

\* The pass over get_prefixes() from position i on, for the joined unit;
\* pub is the calls made so far and raw the to_publish_raw["ssl_ca"] value.
\* for_prefix records the upstream prefix the call was made for and
\* raw_before the to_publish_raw["ssl_ca"] value its iteration found.
RECURSIVE ResponseLoop(_, _, _, _)
ResponseLoop(i, unit, pub, raw) ==
    IF i > Len(get_prefixes) THEN [published |-> pub, raw_ssl_ca |-> raw]
    ELSE LET prefix == get_prefixes[i]
         IN  IF IsOwnPrefix(prefix)
             THEN ResponseLoop(i + 1, unit, pub, raw)
             ELSE IF ~Truthy(password(prefix))
             THEN [published |-> pub, raw_ssl_ca |-> raw]
             ELSE LET _password == JsonLoads(password(prefix))
                      _wait_timeout == IF Truthy(up_wait_timeout)
                                       THEN JsonLoads(up_wait_timeout)
                                       ELSE up_wait_timeout
                      _ssl_ca == IF Truthy(up_ssl_ca)
                                 THEN JsonLoads(up_ssl_ca)
                                 ELSE up_ssl_ca
                      raw1 == ResetSslCa(up_ssl_ca, raw)
                      call == [relation_id   |-> relation_id,
                               db_host       |-> shared_db_address,
                               password      |-> _password,
                               allowed_units |-> AllowedHosts(prefix, unit),
                               prefix        |-> TranslatePrefix(prefix),
                               wait_timeout  |-> _wait_timeout,
                               db_port       |-> mysqlrouter_port,
                               ssl_ca        |-> _ssl_ca,
                               for_prefix    |-> prefix,
                               raw_before    |-> raw]
                      \* set_db_connection_info publishes an ssl_ca it is given
                      raw2 == IF Truthy(_ssl_ca) THEN _ssl_ca ELSE raw1
                  IN  ResponseLoop(i + 1, unit, Append(pub, call), raw2)

\* A faulty variant of ResponsePass: the stale ssl_ca is reset before the
\* joined units are looked at
ResponsePassResetsFirst ==
    IF Len(joined_units) = 0
    THEN [published |-> <<>>,
          raw_ssl_ca |-> ResetSslCa(up_ssl_ca, raw_ssl_ca), read |-> TRUE]
    ELSE [read |-> TRUE] @@ ResponseLoop(1, joined_units[1], <<>>, raw_ssl_ca)

\* The whole of proxy_db_and_user_responses: nothing when no unit is
\* joined (IndexError); read: get_prefixes() was called
ResponsePass ==
    IF Len(joined_units) = 0
    THEN [published |-> <<>>, raw_ssl_ca |-> raw_ssl_ca, read |-> FALSE]
    ELSE [read |-> TRUE] @@ ResponseLoop(1, joined_units[1], <<>>, raw_ssl_ca)

\* The number of prefixes the cluster has published data for (a bound)
MaxPrefixes == 3

\* The prefixes of the model: the router's own, the marker of an unprefixed
\* request, a client's, and two that are parts of the first two
PrefixPool == {"mysqlrouter", "MRUP", "nova", "mysql", "MR"}

\* The unit lists the cluster may publish for a prefix (space separated,
\* as the cluster charm writes them): without, with, and with a unit whose
\* name only contains the local unit's
AllowedPool == {"", "k/0 mr/1", "mr/10"}

\* The cluster's password of a prefix
PasswordOf(prefix) == "pw-" \o prefix

\* What the cluster may publish for a prefix: nothing yet (no password), or
\* a password and the allowed units (every list of the pool for the
\* client's prefix, the one with the local unit for the others)
UpEntries ==
    {[prefix |-> p, password |-> None, allowed_units |-> JsonDumps("")] :
        p \in PrefixPool}
    \cup
    {[prefix |-> "nova", password |-> JsonDumps(PasswordOf("nova")),
      allowed_units |-> JsonDumps(a)] : a \in AllowedPool}
    \cup
    {[prefix |-> p, password |-> JsonDumps(PasswordOf(p)),
      allowed_units |-> JsonDumps("k/0 mr/1")] : p \in PrefixPool}

InitResponses ==
    IdleRequests /\ IdleResponses /\ IdleConf /\ IdleBoot /\ IdleRestart /\ IdleHandlers

\* The cluster publishes the data of one more prefix
db_router_relation_set(entry) ==
    /\ Len(up_prefixes) < MaxPrefixes
    /\ \A i \in DOMAIN up_prefixes : up_prefixes[i].prefix # entry.prefix
    /\ up_prefixes' = Append(up_prefixes, entry)
    /\ published' = <<>>
    /\ resp_ran' = FALSE
    /\ UNCHANGED <<up_wait_timeout, up_ssl_ca, joined_units, raw_ssl_ca, up_read, reqVars, confVars, bootVars, restartVars, handVars>>

\* The cluster sets or unsets its optional settings
db_router_set_optional(wt, ca) ==
    /\ <<wt, ca>> # <<up_wait_timeout, up_ssl_ca>>
    /\ up_wait_timeout' = wt
    /\ up_ssl_ca' = ca
    /\ published' = <<>>
    /\ resp_ran' = FALSE
    /\ UNCHANGED <<up_prefixes, joined_units, raw_ssl_ca, up_read, reqVars, confVars, bootVars, restartVars, handVars>>

\* The client unit joins shared-db
shared_db_joined ==
    /\ joined_units = <<>>
    /\ joined_units' = <<"keystone/7">>
    /\ published' = <<>>
    /\ resp_ran' = FALSE
    /\ UNCHANGED <<up_prefixes, up_wait_timeout, up_ssl_ca, raw_ssl_ca, up_read, reqVars, confVars, bootVars, restartVars, handVars>>

\* The client unit departs
shared_db_departed ==
    /\ joined_units # <<>>
    /\ joined_units' = <<>>
    /\ published' = <<>>
    /\ resp_ran' = FALSE
    /\ UNCHANGED <<up_prefixes, up_wait_timeout, up_ssl_ca, raw_ssl_ca, up_read, reqVars, confVars, bootVars, restartVars, handVars>>

proxy_db_and_user_responses ==
    /\ published' = ResponsePass.published
    /\ raw_ssl_ca' = ResponsePass.raw_ssl_ca
    /\ up_read' = ResponsePass.read
    /\ resp_ran' = TRUE
    /\ UNCHANGED <<up_prefixes, up_wait_timeout, up_ssl_ca, joined_units, reqVars, confVars, bootVars, restartVars, handVars>>

NextResponses ==
    \/ \E entry \in UpEntries : db_router_relation_set(entry)
    \/ \E wt \in {None, "90"}, ca \in {None, JsonDumps("CA")} :
          db_router_set_optional(wt, ca)
    \/ shared_db_joined
    \/ shared_db_departed
    \/ proxy_db_and_user_responses

SpecResponses == InitResponses /\ [][NextResponses]_vars

(***************************************************************************)
(* Claims about the response direction.                                    *)
(***************************************************************************)

\* C3 (as claimed; the code does not satisfy it): if a prefix that is not
\* the router's own has no password upstream, the pass makes no
\* set_db_connection_info call for any prefix, wherever the prefix without
\* password stands in get_prefixes().
C3_AbsentPasswordNoPublish ==
    (resp_ran /\ \E i \in DOMAIN up_prefixes :
                    /\ up_prefixes[i].prefix \notin {"mysqlrouter", "mysql"}
                    /\ up_prefixes[i].password = None)
        => published = <<>>

\* C4: when get_prefixes() contains 'mysqlrouter', no set_db_connection_info
\* call of the pass is made for that prefix, carries it as prefix, or
\* carries the password stored under it.
C4_OwnCredentialsWithheld ==
    (resp_ran /\ \E i \in DOMAIN up_prefixes :
                    up_prefixes[i].prefix = "mysqlrouter") =>
        \A k \in DOMAIN published :
            /\ published[k].for_prefix # "mysqlrouter"
            /\ published[k].prefix # "mysqlrouter"
            /\ published[k].password # "pw-mysqlrouter"

C4_Witness ==
    /\ resp_ran
    /\ Len(up_prefixes) = 2
    /\ up_prefixes[1].prefix = "mysqlrouter"
    /\ up_prefixes[1].password = "\"pw-mysqlrouter\""
    /\ Len(published) = 1
    /\ published[1].prefix = "nova"

\* The unit identifiers listed in a space separated string
UnitsListed(str) == {split(str, " ")[i] : i \in DOMAIN split(str, " ")}

\* C10 (as claimed; the code does not satisfy it): in every published
\* response, allowed_units is the joined unit's name if the local unit is
\* one of the units listed upstream for the prefix, and None otherwise.
C10_AllowedHostsIffListed ==
    resp_ran =>
        \A k \in DOMAIN published :
            published[k].allowed_units =
                IF local_unit \in UnitsListed(
                       JsonLoads(allowed_units(published[k].for_prefix)))
                THEN joined_units[1]
                ELSE None

\* C25: whenever a pass publishes a response while the cluster supplies no
\* SSL CA, the ssl_ca published before on the client relation is cleared
\* in that pass and every response carries no SSL CA; when an SSL CA is
\* supplied, every response carries its decoded value.
C25_StaleSslCaCleared ==
    (resp_ran /\ published # <<>>) =>
        IF Truthy(up_ssl_ca)
        THEN /\ \A k \in DOMAIN published :
                    published[k].ssl_ca = JsonLoads(up_ssl_ca)
             /\ raw_ssl_ca = JsonLoads(up_ssl_ca)
        ELSE /\ \A k \in DOMAIN published : published[k].ssl_ca = None
             /\ raw_ssl_ca = None

\* A pass that found a published CA, with none supplied any more
C25_Witness ==
    /\ resp_ran
    /\ up_ssl_ca = None
    /\ Len(published) >= 1
    /\ published[1].raw_before = "CA"
    /\ published[1].ssl_ca = None
    /\ raw_ssl_ca = None

\* C26 (as claimed; the code does not satisfy it): a response is published
\* with prefix None if and only if its upstream prefix is the marker
\* 'MRUP'; every other prefix, also one that is a part of the marker, is
\* published as it is.
C26_PrefixRoundTrip ==
    resp_ran =>
        \A k \in DOMAIN published :
            published[k].prefix =
                IF published[k].for_prefix = _unprefixed
                THEN None
                ELSE published[k].for_prefix

\* C27: with no unit joined on the client relation, a pass publishes
\* nothing, leaves the published ssl_ca as it was and does not read the
\* upstream relation.
C27_NoUnitNoEffect ==
    [][(resp_ran' /\ joined_units = <<>>)
       => /\ published' = <<>>
          /\ raw_ssl_ca' = raw_ssl_ca
          /\ ~up_read'
      ]_vars

\* A pass after the client unit departed, with data and a stale CA left
C27_Witness ==
    /\ resp_ran
    /\ joined_units = <<>>
    /\ Len(up_prefixes) >= 1
    /\ up_ssl_ca = None
    /\ raw_ssl_ca = "CA"
    /\ published = <<>>
    /\ ~up_read

\* The set_db_connection_info calls of the pass made for a prefix
CallsFor(prefix) ==
    {k \in DOMAIN published : published[k].for_prefix = prefix}

\* Position i of get_prefixes() is the first prefix, other than the
\* router's own, that has no password
FirstWithoutPassword(i) ==
    /\ up_prefixes[i].prefix # db_prefix
    /\ up_prefixes[i].password = None
    /\ \A j \in 1..(i - 1) :
          up_prefixes[j].prefix # db_prefix => up_prefixes[j].password # None

\* C35 (as claimed; the code does not satisfy it): once the pass reaches,
\* in get_prefixes order, a prefix other than the router's own that has no
\* password, it ends: no call is made for that prefix or a later one, and
\* each earlier prefix other than the router's own has exactly one call.
C35_PassEndsAtMissingPassword ==
    (resp_ran /\ joined_units # <<>>) =>
        \A i \in DOMAIN up_prefixes :
            FirstWithoutPassword(i) =>
                /\ \A k \in i..Len(up_prefixes) :
                      CallsFor(up_prefixes[k].prefix) = {}
                /\ \A j \in 1..(i - 1) :
                      up_prefixes[j].prefix # db_prefix =>
                          Cardinality(CallsFor(up_prefixes[j].prefix)) = 1

\* C40 (as claimed; the code does not satisfy it): in a pass with a joined
\* client unit in which every prefix has a password, every prefix other
\* than 'mysqlrouter' itself, also one that is a part of that string, gets
\* exactly one set_db_connection_info call, and 'mysqlrouter' gets none.
C40_OnlyOwnPrefixWithheld ==
    (/\ resp_ran
     /\ joined_units # <<>>
     /\ \A i \in DOMAIN up_prefixes : up_prefixes[i].password # None) =>
        \A i \in DOMAIN up_prefixes :
            Cardinality(CallsFor(up_prefixes[i].prefix)) =
                (IF up_prefixes[i].prefix = db_prefix THEN 0 ELSE 1)

(***************************************************************************)
(* mysqlrouter.conf and update_config_parameters.                          *)
(*                                                                         *)
(* The content of the file is defaults, the options of [DEFAULT], and      *)
(* sections, the other sections <<name, options>> in file order; options   *)
(* are a dict of option name to value.  Comments and layout are not kept.  *)
(***************************************************************************)

\* Section configuration search keys
DEFAULT_SECTION == "DEFAULT"
LOGGING_SECTION == "logger"
METADATA_CACHE_SECTION == "metadata_cache:[\\w$]+$"

UpperCase == "ABCDEFGHIJKLMNOPQRSTUVWXYZ"
LowerCase == "abcdefghijklmnopqrstuvwxyz"
Digits == "0123456789"

\* The characters of a string
Chars(str) == {CharAt(str, i) : i \in 1..Len(str)}

UpperChars == Chars(UpperCase)
WordChars == Chars(LowerCase \o UpperCase \o Digits \o "_")

\* str.lower(), which is ConfigParser.optionxform
RECURSIVE Lower(_)
Lower(str) ==
    IF \A i \in 1..Len(str) : CharAt(str, i) \notin UpperChars THEN str
    ELSE LET c == CharAt(str, 1)
         IN  (IF c \in UpperChars THEN CharAt(LowerCase, IndexOf(UpperCase, c))
              ELSE c) \o Lower(SubSeq(str, 2, Len(str)))

\* \w of a regular expression, for one character
IsWordChar(c) == c \in WordChars

\* The match of the whole name, as a variant of ReMatch: a literal heading
\* must equal the name
ReMatchWhole(pattern, str) ==
    IF pattern = METADATA_CACHE_SECTION
    THEN /\ StartsWith(str, "metadata_cache:")
         /\ Len(str) > Len("metadata_cache:")
         /\ \A i \in (Len("metadata_cache:") + 1)..Len(str) :
               IsWordChar(CharAt(str, i)) \/ CharAt(str, i) = "$"
    ELSE str = pattern

\* re.match(pattern, str) is not None, for the headings the charm uses: the
\* metadata_cache pattern, and literal names (which match at the start of
\* str, whatever follows)
ReMatch(pattern, str) ==
    IF pattern = METADATA_CACHE_SECTION
    THEN /\ StartsWith(str, "metadata_cache:")
         /\ Len(str) > Len("metadata_cache:")
         /\ \A i \in (Len("metadata_cache:") + 1)..Len(str) :
               IsWordChar(CharAt(str, i)) \/ CharAt(str, i) = "$"
    ELSE StartsWith(str, pattern)

\* ConfigParser.read: option names are lower-cased
LowerKeys(d) == [i \in DOMAIN d |-> <<Lower(d[i][1]), d[i][2]>>]

ConfigRead(file) ==
    [defaults |-> LowerKeys(file.defaults),
     sections |-> [i \in DOMAIN file.sections |->
                     <<file.sections[i][1], LowerKeys(file.sections[i][2])>>]]

\* open(file, 'w') and ConfigParser.write: the file exists afterwards and
\* holds the options of [DEFAULT], then the sections in order
ConfigWrite(config) ==
    [exists |-> TRUE, defaults |-> config.defaults, sections |-> config.sections]

\* The bytes config.write puts out for the options of one section: a line
\* "key = value" for each
RECURSIVE OptionsSize(_, _)
OptionsSize(options, i) ==
    IF i > Len(options) THEN 0
    ELSE Len(options[i][1]) + 3 + Len(options[i][2]) + 1
         + OptionsSize(options, i + 1)

\* ... for the sections from i on: "[name]", the options, an empty line
RECURSIVE SectionsSize(_, _)
SectionsSize(sections, i) ==
    IF i > Len(sections) THEN 0
    ELSE Len(sections[i][1]) + 3 + OptionsSize(sections[i][2], 1) + 1
         + SectionsSize(sections, i + 1)

\* The size in bytes of the file config.write leaves ([DEFAULT] is written
\* only when it has options)
WriteSize(config) ==
    (IF config.defaults = <<>> THEN 0
     ELSE Len(DEFAULT_SECTION) + 3 + OptionsSize(config.defaults, 1) + 1)
    + SectionsSize(config.sections, 1)

\* config.sections()
SectionNames(config) == [i \in DOMAIN config.sections |-> config.sections[i][1]]

\* A faulty variant of FirstMatch: the loop has no break, so the last
\* section the heading matches is taken
FirstMatchNoBreak(heading, names) ==
    CHOOSE i \in DOMAIN names :
        /\ ReMatch(heading, names[i])
        /\ \A j \in (i + 1)..Len(names) : ~ReMatch(heading, names[j])

\* for section in config.sections(): if re.match(heading, section): break
\* (the index of the section the loop stops at, when one matches)
FirstMatch(heading, names) ==
    CHOOSE i \in DOMAIN names :
        /\ ReMatch(heading, names[i])
        /\ \A j \in 1..(i - 1) : ~ReMatch(heading, names[j])

\* A faulty variant of Translated: without the else branch the loop
\* variable is used, which is left at the last section
TranslatedNoElse(heading, config) ==
    LET names == SectionNames(config)
    IN  IF \E i \in DOMAIN names : ReMatch(heading, names[i])
        THEN names[FirstMatch(heading, names)]
        ELSE IF names = <<>> THEN heading ELSE names[Len(names)]

\* The for/else over config.sections(): the first section the heading
\* matches, the heading itself when none does
Translated(heading, config) ==
    LET names == SectionNames(config)
    IN  IF \E i \in DOMAIN names : ReMatch(heading, names[i])
        THEN names[FirstMatch(heading, names)]
        ELSE heading

\* A faulty variant of SetOption: an existing section is replaced
SetOptionReplacing(config, translated, param, value) ==
    IF translated = DEFAULT_SECTION
    THEN [config EXCEPT !.defaults = <<<<Lower(param), value>>>>]
    ELSE IF translated \in DictKeys(config.sections)
    THEN [config EXCEPT !.sections =
            DictSet(config.sections, translated, <<<<Lower(param), value>>>>)]
    ELSE [config EXCEPT !.sections =
            Append(config.sections, <<translated, <<<<Lower(param), value>>>>>>)]

\* config[translated][param] = value, and on KeyError (no such section)
\* config[translated] = {param: value}
SetOption(config, translated, param, value) ==
    IF translated = DEFAULT_SECTION
    THEN [config EXCEPT !.defaults = DictSet(config.defaults, Lower(param), value)]
    ELSE IF translated \in DictKeys(config.sections)
    THEN [config EXCEPT !.sections =
            DictSet(config.sections, translated,
                    DictSet(DictGet(config.sections, translated),
                            Lower(param), value))]
    ELSE [config EXCEPT !.sections =
            Append(config.sections, <<translated, <<<<Lower(param), value>>>>>>)]

\* for param, value in settings.items(), from item i on
RECURSIVE ApplySettings(_, _, _, _)
ApplySettings(settings, i, translated, config) ==
    IF i > Len(settings) THEN config
    ELSE ApplySettings(settings, i + 1, translated,
                       SetOption(config, translated,
                                 settings[i][1], settings[i][2]))

\* for heading, settings in parameters.items(), from item i on
RECURSIVE ApplyHeadings(_, _, _)
ApplyHeadings(parameters, i, config) ==
    IF i > Len(parameters) THEN config
    ELSE ApplyHeadings(parameters, i + 1,
                       ApplySettings(parameters[i][2], 1,
                                     Translated(parameters[i][1], config),
                                     config))

\* A faulty variant of UpdateConfigParameters: the file is opened for
\* appending, so the sections written follow those already there
UpdateConfigParametersAppending(parameters, file) ==
    IF ~file.exists THEN file
    ELSE [exists |-> TRUE,
          defaults |-> ApplyHeadings(parameters, 1, ConfigRead(file)).defaults,
          sections |-> file.sections \o
                       ApplyHeadings(parameters, 1, ConfigRead(file)).sections]

\* update_config_parameters(parameters): the file it leaves on disk
UpdateConfigParameters(parameters, file) ==
    IF ~file.exists THEN file
    ELSE ConfigWrite(ApplyHeadings(parameters, 1, ConfigRead(file)))

\* MySQLRouterCharm.mysqlrouter_pid_file, for the application name "kmr"
mysqlrouter_pid_file == "/run/mysql/mysqlrouter-kmr.pid"

\* ch_core.host.cmp_pkgrevno('mysql-router', w) >= 0 for the installed
\* version v, both <<major, minor, patch>>
VersionGE(v, w) ==
    \/ v[1] > w[1]
    \/ v[1] = w[1] /\ v[2] > w[2]
    \/ v[1] = w[1] /\ v[2] = w[2] /\ v[3] >= w[3]

\* _get_config_parameters: the parameters for the charm options, the
\* installed mysql-router version, the file on disk and self.ssl_ca
_get_config_parameters(options, pkgver, file, ssl_ca) ==
    LET config == ConfigRead(file)
        d0 == << <<"pid_file", mysqlrouter_pid_file>>,
                 <<"unknown_config_option", "warning">> >>
        d1 == IF VersionGE(pkgver, <<8, 0, 23>>)
              THEN IF "client_ssl_cert" \in DictKeys(config.defaults)
                   THEN DictSet(d0, "client_ssl_mode",
                                IF Truthy(ssl_ca) THEN "PASSTHROUGH"
                                ELSE "PREFERRED")
                   ELSE DictPop(d0, "client_ssl_mode")
              ELSE d0
        d2 == IF VersionGE(pkgver, <<8, 0, 27>>)
              THEN DictSet(d1, "max_total_connections", options.max_connections)
              ELSE DictSet(d1, "max_connections", options.max_connections)
    IN  << <<METADATA_CACHE_SECTION,
             << <<"ttl", options.ttl>>,
                <<"auth_cache_ttl", options.auth_cache_ttl>>,
                <<"auth_cache_refresh_interval",
                  options.auth_cache_refresh_interval>> >> >>,
           <<DEFAULT_SECTION, d2>>,
           <<LOGGING_SECTION,
             << <<"level", IF options.debug THEN "DEBUG" ELSE "INFO">> >> >> >>

\* The number of sections (besides [DEFAULT]) of the file the charm finds
\* (a bound of the model)
MaxSections == 2

\* The charm options of the model
OptionsPool ==
    {[ttl |-> t, auth_cache_ttl |-> "-1", auth_cache_refresh_interval |-> "2",
      debug |-> dbg, max_connections |-> "512"] :
        t \in {"5", "10"}, dbg \in BOOLEAN}

\* Installed mysql-router versions, around the versions the charm tests for
VersionPool == {<<8, 0, 22>>, <<8, 0, 23>>, <<8, 0, 27>>}

\* [DEFAULT] as the file may hold it: empty, as an older bootstrap wrote
\* it, and with TLS options (an option name in capitals is an operator's)
DefaultsPool ==
    { <<>>,
      << <<"user", "mysql">> >>,
      << <<"User", "mysql">>, <<"client_ssl_cert", "/c.pem">>,
         <<"client_ssl_mode", "PREFERRED">> >> }

\* The sections the file may hold, each with its options
SectionPool ==
    { <<"metadata_cache:jujuCluster",
        << <<"user", "mysqlrouteruser">>, <<"ttl", "0.5">> >> >>,
      <<"metadata_cache:myCluster",
        << <<"user", "mysqlrouteruser">>, <<"ttl", "0.5">> >> >>,
      <<"logger", << <<"level", "WARNING">>, <<"filename", "r.log">> >> >>,
      <<"logger_extra", << <<"sinks", "syslog">> >> >>,
      <<"routing:jujuCluster_rw", << <<"bind_port", "3306">> >> >> }

\* The sequences of at most n distinct sections of SectionPool
RECURSIVE SectionSeqs(_)
SectionSeqs(n) ==
    IF n = 0 THEN {<<>>}
    ELSE SectionSeqs(n - 1) \cup
         {Append(q, e) : q \in {r \in SectionSeqs(n - 1) : Len(r) = n - 1},
                         e \in SectionPool}

ConfDocs ==
    {[exists |-> TRUE, defaults |-> d, sections |-> q] :
        d \in DefaultsPool,
        q \in {r \in SectionSeqs(MaxSections) :
                  \A i, j \in DOMAIN r : i # j => r[i][1] # r[j][1]}}

\* The file as a bootstrap or the operator left it, or no file yet
InitPatch ==
    /\ IdleRequests /\ IdleResponses /\ IdleBoot /\ IdleRestart /\ IdleHandlers
    /\ conf \in {NoFile} \cup ConfDocs
    /\ conf_size = (IF conf.exists THEN WriteSize(conf) ELSE 0)
    /\ patch_last = [op |-> "none", parameters |-> <<>>, repeated |-> FALSE]
    /\ config_last = NoConfigChanged

update_config_parameters(parameters) ==
    /\ conf' = UpdateConfigParameters(parameters, conf)
    /\ conf_size' = (IF conf.exists THEN WriteSize(conf') ELSE conf_size)
    /\ patch_last' = [op |-> "update_config_parameters",
                      parameters |-> parameters,
                      repeated |-> patch_last.op = "update_config_parameters"
                                   /\ patch_last.parameters = parameters]
    /\ UNCHANGED <<config_last, reqVars, respVars, bootVars, restartVars, handVars>>

\* The parameters the charm may pass for the file on disk
ParameterSets ==
    {_get_config_parameters(options, pkgver, conf, ca) :
        options \in OptionsPool, pkgver \in VersionPool, ca \in {None, "CA"}}

NextPatch ==
    \E parameters \in ParameterSets : update_config_parameters(parameters)

SpecPatch == InitPatch /\ [][NextPatch]_vars

(***************************************************************************)
(* Claims about update_config_parameters.  A step of the call is one with  *)
(* patch_last'.op = "update_config_parameters"; conf is the file before    *)
(* the call and conf' the file after it.  Option names are compared as     *)
(* ConfigParser reads them (lower-cased).                                  *)
(***************************************************************************)

UpdateStep == patch_last'.op = "update_config_parameters" /\ conf.exists

\* The <<key, value>> pairs of a dict
Items(d) == {d[i] : i \in DOMAIN d}

\* The pairs the parameters set under any heading
PairsSet(parameters) ==
    UNION {Items(parameters[h][2]) : h \in DOMAIN parameters}

\* Options new keeps every key of old, and a key whose value differs got
\* the value the parameters give it
OptionsKept(old, new, parameters) ==
    \A i \in DOMAIN old :
        LET k == Lower(old[i][1])
        IN  /\ k \in DictKeys(new)
            /\ \/ DictGet(new, k) = old[i][2]
               \/ <<k, DictGet(new, k)>> \in PairsSet(parameters)

\* C5: update_config_parameters removes no section and no key, and changes
\* the value of a key only to the value the patchset sets for that key;
\* a section whose name does not begin like any heading of the patchset is
\* written back as it was.
C5_PatchKeepsOtherKeys ==
    [][UpdateStep =>
        /\ conf'.exists
        /\ OptionsKept(conf.defaults, conf'.defaults, patch_last'.parameters)
        /\ Len(conf'.sections) >= Len(conf.sections)
        /\ \A i \in DOMAIN conf.sections :
              /\ conf'.sections[i][1] = conf.sections[i][1]
              /\ OptionsKept(conf.sections[i][2], conf'.sections[i][2],
                             patch_last'.parameters)
              /\ (~StartsWith(conf.sections[i][1], "metadata_cache:")
                  /\ ~StartsWith(conf.sections[i][1], "logger"))
                    => conf'.sections[i] = conf.sections[i]
      ]_vars

C5_Witness ==
    /\ patch_last.op = "update_config_parameters"
    /\ conf.exists
    /\ Len(conf.sections) = 3
    /\ conf.sections[1] = <<"routing:jujuCluster_rw", << <<"bind_port", "3306">> >> >>
    /\ conf.sections[2][1] = "metadata_cache:jujuCluster"
    /\ DictGet(conf.sections[2][2], "user") = "mysqlrouteruser"
    /\ DictGet(conf.sections[2][2], "ttl") = "5"
    /\ DictGet(conf.defaults, "user") = "mysql"
    /\ DictGet(conf.defaults, "client_ssl_cert") = "/c.pem"

\* The heading selects the section name: it is the name, or re.match finds
\* the heading at the start of the name
Selects(heading, name) == name = heading \/ ReMatch(heading, name)

\* C6: when a heading of the patchset selects no section of the file,
\* update_config_parameters creates one section named exactly as the
\* heading, holding exactly the heading's key/value pairs (for the heading
\* DEFAULT: a file without [DEFAULT] options gets exactly those pairs).
C6_UnmatchedSelectorCreatesSection ==
    [][UpdateStep =>
        \A h \in DOMAIN patch_last'.parameters :
            LET heading  == patch_last'.parameters[h][1]
                settings == patch_last'.parameters[h][2]
            IN  IF heading = "DEFAULT"
                THEN conf.defaults = <<>> => conf'.defaults = settings
                ELSE (\A i \in DOMAIN conf.sections :
                         ~Selects(heading, conf.sections[i][1]))
                     => /\ Cardinality({i \in DOMAIN conf'.sections :
                               conf'.sections[i][1] = heading}) = 1
                        /\ \E i \in DOMAIN conf'.sections :
                               /\ i > Len(conf.sections)
                               /\ conf'.sections[i] = <<heading, settings>>
      ]_vars

C6_Witness ==
    /\ patch_last.op = "update_config_parameters"
    /\ ~patch_last.repeated
    /\ conf.exists
    /\ Len(conf.sections) = 3
    /\ conf.sections[1][1] = "routing:jujuCluster_rw"
    /\ conf.sections[2] =
          <<"metadata_cache:[\\w$]+$",
            << <<"ttl", "10">>, <<"auth_cache_ttl", "-1">>,
               <<"auth_cache_refresh_interval", "2">> >> >>
    /\ conf.sections[3] = <<"logger", << <<"level", "DEBUG">> >> >>

\* C7: applying the patchset that was applied by the call before leaves the
\* file as that call left it.
C7_PatchIdempotent ==
    [][(UpdateStep /\ patch_last'.repeated) => conf' = conf]_vars

\* The same patchset was applied twice in a row to a file in which the
\* metadata_cache heading selected no section
C7_Witness ==
    /\ patch_last.op = "update_config_parameters"
    /\ patch_last.repeated
    /\ conf.exists
    /\ \E i \in DOMAIN conf.sections :
          conf.sections[i][1] = "metadata_cache:[\\w$]+$"

\* The heading selects the section by its whole name: it is the name, or
\* as a regular expression it matches the name from start to end
SelectsInFull(heading, name) == name = heading \/ ReMatchWhole(heading, name)

\* C19 (as claimed; the code does not satisfy it): update_config_parameters
\* patches a section only for a heading that selects it by its whole name;
\* a section no heading selects so is written back as it was, and a heading
\* that selects no section so gets a section of its own name.
C19_OnlyWholeNameMatchPatched ==
    [][UpdateStep =>
        /\ \A i \in DOMAIN conf.sections :
              (\A h \in DOMAIN patch_last'.parameters :
                  ~SelectsInFull(patch_last'.parameters[h][1],
                                 conf.sections[i][1]))
              => conf'.sections[i] = conf.sections[i]
        /\ \A h \in DOMAIN patch_last'.parameters :
              (/\ patch_last'.parameters[h][1] # "DEFAULT"
               /\ \A i \in DOMAIN conf.sections :
                     ~SelectsInFull(patch_last'.parameters[h][1],
                                    conf.sections[i][1]))
              => \E j \in DOMAIN conf'.sections :
                     conf'.sections[j][1] = patch_last'.parameters[h][1]
      ]_vars

\* Section i of the file is the first, in file order, that the heading
\* matches
IsFirstMatch(heading, file, i) ==
    /\ ReMatch(heading, file.sections[i][1])
    /\ \A j \in 1..(i - 1) : ~ReMatch(heading, file.sections[j][1])

\* C34 (as claimed; the code does not satisfy it): for each selector
\* update_config_parameters modifies at most one section, the first in
\* file order that matches it: a section that is not the first match of
\* any selector (a further match of a selector, or a section no selector
\* matches) is written back unchanged, and the first match of a selector
\* holds the selector's settings afterwards.
C34_OnlyFirstMatchPatched ==
    [][UpdateStep =>
        /\ Len(conf'.sections) >= Len(conf.sections)
        /\ \A i \in DOMAIN conf.sections :
              (\A h \in DOMAIN patch_last'.parameters :
                  ~IsFirstMatch(patch_last'.parameters[h][1], conf, i))
              => conf'.sections[i] = ConfigRead(conf).sections[i]
        /\ \A h \in DOMAIN patch_last'.parameters :
           \A i \in DOMAIN conf.sections :
              IsFirstMatch(patch_last'.parameters[h][1], conf, i)
              => /\ conf'.sections[i][1] = conf.sections[i][1]
                 /\ \A k \in DOMAIN patch_last'.parameters[h][2] :
                       DictGet(conf'.sections[i][2],
                               patch_last'.parameters[h][2][k][1])
                       = patch_last'.parameters[h][2][k][2]
      ]_vars

\* Section i of the file is the one the heading is translated to: its
\* first match, or, when it matches no section, the section that has the
\* heading as its name
IsTranslated(heading, file, i) ==
    \/ IsFirstMatch(heading, file, i)
    \/ /\ \A j \in DOMAIN file.sections : ~ReMatch(heading, file.sections[j][1])
       /\ file.sections[i][1] = heading

\* C34 (amended): for each selector update_config_parameters modifies at
\* most one section: the first in file order that matches it or, when none
\* matches, the section named as the selector itself (which an earlier
\* call created); every other section is written back unchanged.
C34_OnlyFirstMatchPatchedAmended ==
    [][UpdateStep =>
        /\ Len(conf'.sections) >= Len(conf.sections)
        /\ \A i \in DOMAIN conf.sections :
              (\A h \in DOMAIN patch_last'.parameters :
                  ~IsTranslated(patch_last'.parameters[h][1], conf, i))
              => conf'.sections[i] = ConfigRead(conf).sections[i]
        /\ \A h \in DOMAIN patch_last'.parameters :
           \A i \in DOMAIN conf.sections :
              IsTranslated(patch_last'.parameters[h][1], conf, i)
              => /\ conf'.sections[i][1] = conf.sections[i][1]
                 /\ \A k \in DOMAIN patch_last'.parameters[h][2] :
                       DictGet(conf'.sections[i][2],
                               patch_last'.parameters[h][2][k][1])
                       = patch_last'.parameters[h][2][k][2]
      ]_vars

\* Two sections that the metadata_cache selector matches, the first
\* patched and the second as the file had it
C34_Witness ==
    /\ patch_last.op = "update_config_parameters"
    /\ conf.exists
    /\ Len(conf.sections) >= 2
    /\ ReMatch(METADATA_CACHE_SECTION, conf.sections[1][1])
    /\ ReMatch(METADATA_CACHE_SECTION, conf.sections[2][1])
    /\ DictGet(conf.sections[1][2], "ttl") = "5"
    /\ DictGet(conf.sections[2][2], "ttl") = "0.5"
    /\ "auth_cache_ttl" \notin DictKeys(conf.sections[2][2])

(***************************************************************************)
(* bootstrap_mysqlrouter.                                                  *)
(***************************************************************************)

MYSQL_ROUTER_BOOTSTRAPPED == "charm.mysqlrouter.bootstrapped"
MYSQL_ROUTER_BOOTSTRAP_ATTEMPTED == "charm.mysqlrouter.bootstrap-attempted"

mysqlrouter_bin == "/usr/bin/mysqlrouter"
mysqlrouter_user == "mysql"
\* MySQLRouterCharm.name: the application name
name == "kmr"
db_router_user == db_prefix \o "user"
mysqlrouter_home_dir == "/var/lib/mysql"
mysqlrouter_working_dir == mysqlrouter_home_dir \o "/" \o name
\* MySQLRouterCharm.db_router_address (options.db_router_address)
db_router_address == "10.0.0.5"

\* A faulty variant of Bails: the attempted flag is tested
BailsOnAttempted(force, fl) ==
    ~force /\ MYSQL_ROUTER_BOOTSTRAP_ATTEMPTED \in fl

\* if not force and is_flag_set(MYSQL_ROUTER_BOOTSTRAPPED): ... return
Bails(force, fl) ==
    ~force /\ MYSQL_ROUTER_BOOTSTRAPPED \in fl

\* A faulty variant of UsesForce: the attempted flag is not looked at
UsesForceForcedOnly(force, fl) == force

\* A faulty variant of UsesForce: the argument is not looked at
UsesForceAttemptedOnly(force, fl) ==
    MYSQL_ROUTER_BOOTSTRAP_ATTEMPTED \in fl

\* if is_bootstrap_attempted or force
UsesForce(force, fl) ==
    MYSQL_ROUTER_BOOTSTRAP_ATTEMPTED \in fl \/ force

\* cmd, as bootstrap_mysqlrouter builds it; password and db_host are the
\* raw (JSON) values of the db-router relation
BootstrapCmd(force, fl, pkgver, password_raw, db_host_raw) ==
    << mysqlrouter_bin,
       "--user", mysqlrouter_user,
       "--name", name,
       "--bootstrap",
       db_router_user \o ":" \o JsonLoads(password_raw) \o "@"
           \o JsonLoads(db_host_raw),
       "--directory", mysqlrouter_working_dir,
       "--conf-use-sockets",
       "--conf-bind-address", shared_db_address,
       "--report-host", db_router_address,
       "--conf-base-port", mysqlrouter_port >>
    \o (IF VersionGE(pkgver, <<8, 0, 22>>) THEN <<"--disable-rest">> ELSE <<>>)
    \o (IF UsesForce(force, fl) THEN <<"--force">> ELSE <<>>)

\* The file after f.write("[DEFAULT]\n")
ClearedConf == [exists |-> TRUE, defaults |-> <<>>, sections |-> <<>>]

\* Installed versions on both sides of 8.0.22
BootVersionPool == {<<8, 0, 21>>, <<8, 0, 22>>}

\* The password the cluster published for the mysqlrouter prefix
BootPasswordPool == {JsonDumps("pw-mysqlrouter")}

\* db_host() of the db-router relation
BootDbHost == JsonDumps("10.0.0.9")

\* The files a successful mysqlrouter --bootstrap may leave: those of the
\* pool with one metadata_cache section for the cluster and a user in
\* [DEFAULT]
BootstrapDocs ==
    {doc \in ConfDocs :
        /\ doc.defaults = << <<"user", "mysql">> >>
        /\ Len(doc.sections) = 1
        /\ doc.sections[1][1] = "metadata_cache:jujuCluster"}

InitBootstrap ==
    /\ IdleRequests /\ IdleResponses /\ IdleConf /\ IdleBoot /\ IdleRestart /\ IdleHandlers

\* A faulty variant of FlagsAtInvoke: the attempted flag is set only after
\* the command has returned
FlagsAtInvokeLate(fl) == fl

\* The flags when subprocess.check_output is called: after
\* set_flag(MYSQL_ROUTER_BOOTSTRAP_ATTEMPTED)
FlagsAtInvoke(fl) == fl \cup {MYSQL_ROUTER_BOOTSTRAP_ATTEMPTED}

\* A faulty variant of FlagsAfterBootstrap: the attempted flag is not
\* cleared after a successful command
FlagsAfterBootstrapNoClear(fl, success) ==
    IF success
    THEN fl \cup {MYSQL_ROUTER_BOOTSTRAP_ATTEMPTED, MYSQL_ROUTER_BOOTSTRAPPED}
    ELSE fl

\* The flags after set_flag(ATTEMPTED), the command, and on its success
\* clear_flag(ATTEMPTED) and set_flag(BOOTSTRAPPED); fl is the flags the
\* command was called with
FlagsAfterBootstrap(fl, success) ==
    IF success
    THEN (fl \ {MYSQL_ROUTER_BOOTSTRAP_ATTEMPTED})
         \cup {MYSQL_ROUTER_BOOTSTRAPPED}
    ELSE fl

\* The size of the file after f.write("[DEFAULT]\n")
ClearedSize == Len("[DEFAULT]") + 1

\* The sizes of the file a successful mysqlrouter --bootstrap leaves (it
\* holds comments and sections the charm does not look at): around the
\* size validate_configuration tests for, and a usual one
BootSizePool == {1023, 1024, 1025, 1600}

\* What the mysqlrouter command may do: exit with status 0 leaving a new
\* file, or exit non-zero leaving the file alone or truncated to nothing;
\* crashed: the charm's process dies while check_output runs
BinaryResults ==
    {[success |-> TRUE, crashed |-> FALSE, truncated |-> FALSE,
      doc |-> d, size |-> n] : d \in BootstrapDocs, n \in BootSizePool}
    \cup
    {[success |-> FALSE, crashed |-> c, truncated |-> t,
      doc |-> ClearedConf, size |-> 0] : c \in BOOLEAN, t \in BOOLEAN}

\* The body of MySQLRouterCharm.bootstrap_mysqlrouter(force), called by
\* caller.  write_ok: open() of the configuration file succeeds; result:
\* what the command does.
BootstrapCall(caller, force, pkgver, password_raw, write_ok, result) ==
    LET cmd      == BootstrapCmd(force, flags, pkgver, password_raw, BootDbHost)
        clears   == UsesForce(force, flags) /\ write_ok
        success  == result.success
        at_invoke == IF clears THEN ClearedConf ELSE conf
    IN  IF Bails(force, flags)
        THEN /\ boot_last' = [op |-> "bootstrap_mysqlrouter",
                              caller |-> caller, force |-> force,
                              was_bootstrapped |-> TRUE,
                              was_attempted |->
                                  MYSQL_ROUTER_BOOTSTRAP_ATTEMPTED \in flags,
                              cmd |-> <<>>, set_flag |-> <<>>,
                              clear_flag |-> <<>>,
                              tried_write |-> FALSE, wrote |-> FALSE,
                              flags_at_invoke |-> {},
                              conf_at_invoke |-> NoFile,
                              outcome |-> "bailed",
                              after |-> boot_last.outcome,
                              calls |-> 1 - boot_last.calls]
             /\ UNCHANGED <<flags, conf, conf_size>>
        ELSE /\ boot_last' =
                  [op |-> "bootstrap_mysqlrouter",
                   caller |-> caller, force |-> force,
                   was_bootstrapped |-> MYSQL_ROUTER_BOOTSTRAPPED \in flags,
                   was_attempted |-> MYSQL_ROUTER_BOOTSTRAP_ATTEMPTED \in flags,
                   cmd |-> cmd,
                   set_flag |-> IF success
                                THEN <<MYSQL_ROUTER_BOOTSTRAP_ATTEMPTED,
                                       MYSQL_ROUTER_BOOTSTRAPPED>>
                                ELSE <<MYSQL_ROUTER_BOOTSTRAP_ATTEMPTED>>,
                   clear_flag |-> IF success
                                  THEN <<MYSQL_ROUTER_BOOTSTRAP_ATTEMPTED>>
                                  ELSE <<>>,
                   tried_write |-> UsesForce(force, flags),
                   wrote |-> clears,
                   flags_at_invoke |-> FlagsAtInvoke(flags),
                   conf_at_invoke |-> at_invoke,
                   outcome |-> IF success THEN "ok"
                               ELSE IF result.crashed THEN "crashed"
                               ELSE "failed",
                   after |-> boot_last.outcome,
                   calls |-> 1 - boot_last.calls]
             /\ flags' = FlagsAfterBootstrap(FlagsAtInvoke(flags), success)
             /\ conf' = IF success THEN result.doc
                        ELSE IF result.truncated THEN ClearedConf
                        ELSE at_invoke
             /\ conf_size' = IF success THEN result.size
                             ELSE IF result.truncated THEN 0
                             ELSE IF clears THEN ClearedSize ELSE conf_size

\* MySQLRouterCharm.bootstrap_mysqlrouter(force)
bootstrap_mysqlrouter(force, pkgver, password_raw, write_ok, result) ==
    /\ BootstrapCall("bootstrap_mysqlrouter", force, pkgver, password_raw,
                     write_ok, result)
    /\ UNCHANGED <<validate_last, patch_last, config_last, reqVars, respVars,
                   restartVars, handVars>>

\* conf_size <= 1024
TooSmall(size) == size <= 1024

\* MySQLRouterCharm.validate_configuration()
validate_configuration(pkgver, password_raw, write_ok, result) ==
    /\ validate_last' = [op |-> "validate_configuration",
                         exists |-> conf.exists, size |-> conf_size,
                         called |-> conf.exists /\ TooSmall(conf_size)]
    /\ IF conf.exists /\ TooSmall(conf_size)
       THEN BootstrapCall("validate_configuration", TRUE, pkgver,
                          password_raw, write_ok, result)
       ELSE UNCHANGED <<flags, boot_last, conf, conf_size>>
    /\ UNCHANGED <<patch_last, config_last, reqVars, respVars, restartVars,
                   handVars>>

NextBootstrap ==
    \E pkgver \in BootVersionPool, password_raw \in BootPasswordPool,
       write_ok \in BOOLEAN, result \in BinaryResults :
        \/ \E force \in BOOLEAN :
              bootstrap_mysqlrouter(force, pkgver, password_raw, write_ok,
                                    result)
        \/ validate_configuration(pkgver, password_raw, write_ok, result)

SpecBootstrap == InitBootstrap /\ [][NextBootstrap]_vars

\* The strings of a command line
Args(cmd) == {cmd[i] : i \in DOMAIN cmd}

\* C1: bootstrap_mysqlrouter(force=False) with the bootstrapped flag set
\* runs no command, makes no set_flag or clear_flag call, does not write
\* the configuration file, and leaves the flags and the file as they were.
C1_BootstrappedNoOp ==
    [][(/\ boot_last'.op = "bootstrap_mysqlrouter"
        /\ validate_last' = validate_last
        /\ ~boot_last'.force
        /\ MYSQL_ROUTER_BOOTSTRAPPED \in flags)
       => /\ boot_last'.cmd = <<>>
          /\ boot_last'.set_flag = <<>>
          /\ boot_last'.clear_flag = <<>>
          /\ ~boot_last'.wrote
          /\ flags' = flags
          /\ conf' = conf
      ]_vars

C1_Witness ==
    /\ boot_last.op = "bootstrap_mysqlrouter"
    /\ ~boot_last.force
    /\ boot_last.was_bootstrapped
    /\ boot_last.outcome = "bailed"
    /\ MYSQL_ROUTER_BOOTSTRAPPED \in flags
    /\ conf.exists

\* C2: bootstrap_mysqlrouter(force=True) runs the mysqlrouter bootstrap
\* command, also when the bootstrapped flag is set, and the command line
\* contains --force.
C2_ForcedAlwaysInvokes ==
    (boot_last.op = "bootstrap_mysqlrouter" /\ boot_last.force)
    => /\ boot_last.outcome \in {"ok", "failed", "crashed"}
       /\ boot_last.cmd # <<>>
       /\ boot_last.cmd[1] = mysqlrouter_bin
       /\ "--bootstrap" \in Args(boot_last.cmd)
       /\ "--force" \in Args(boot_last.cmd)

C2_Witness ==
    /\ boot_last.op = "bootstrap_mysqlrouter"
    /\ boot_last.force
    /\ boot_last.was_bootstrapped
    /\ MYSQL_ROUTER_BOOTSTRAP_ATTEMPTED \notin flags
    /\ "--force" \in Args(boot_last.cmd)

\* C11: after a bootstrap_mysqlrouter call whose command exited with
\* status 0, the bootstrapped flag is set and the bootstrap-attempted flag
\* is clear, whoever made the call and whatever the flags were before.
C11_SuccessSetsBootstrapped ==
    (boot_last.op = "bootstrap_mysqlrouter" /\ boot_last.outcome = "ok")
    => /\ MYSQL_ROUTER_BOOTSTRAPPED \in flags
       /\ MYSQL_ROUTER_BOOTSTRAP_ATTEMPTED \notin flags
       /\ boot_last.clear_flag = <<MYSQL_ROUTER_BOOTSTRAP_ATTEMPTED>>

\* validate_configuration found an existing empty file and its forced
\* bootstrap succeeded
C11_Witness ==
    /\ validate_last.op = "validate_configuration"
    /\ validate_last.exists
    /\ validate_last.size = 0
    /\ validate_last.called
    /\ boot_last.caller = "validate_configuration"
    /\ boot_last.outcome = "ok"
    /\ "--force" \in Args(boot_last.cmd)
    /\ flags = {MYSQL_ROUTER_BOOTSTRAPPED}

\* C12 (as claimed; the code does not satisfy it): after a
\* bootstrap_mysqlrouter call whose command exited non-zero, the
\* bootstrap-attempted flag is set and the bootstrapped flag is not set.
C12_FailureLeavesAttemptedOnly ==
    (boot_last.op = "bootstrap_mysqlrouter" /\ boot_last.outcome = "failed")
    => /\ MYSQL_ROUTER_BOOTSTRAP_ATTEMPTED \in flags
       /\ MYSQL_ROUTER_BOOTSTRAPPED \notin flags

\* C13 (as claimed; the code does not satisfy it): validate_configuration
\* calls bootstrap_mysqlrouter(True) if and only if the file exists and its
\* size is less than 1024 bytes.
C13_ValidateBelowThreshold ==
    validate_last.op = "validate_configuration"
    => (validate_last.called <=>
            (validate_last.exists /\ validate_last.size < 1024))

\* A step that is a bootstrap_mysqlrouter call
BootStep == boot_last'.calls # boot_last.calls

\* C21 (as claimed; the code does not satisfy it): a call that runs the
\* command carries --force, and has rewritten the file to a single empty
\* [DEFAULT] section before, if and only if the attempted flag was set or
\* force is true; otherwise it carries no --force and the command finds
\* the file as it was.
C21_ForceIffAttemptedOrForced ==
    [][(BootStep /\ boot_last'.outcome # "bailed")
       => LET forced == MYSQL_ROUTER_BOOTSTRAP_ATTEMPTED \in flags
                        \/ boot_last'.force
          IN  /\ "--force" \in Args(boot_last'.cmd) <=> forced
              /\ boot_last'.wrote <=> forced
              /\ boot_last'.wrote => boot_last'.conf_at_invoke = ClearedConf
              /\ ~forced => boot_last'.conf_at_invoke = conf
      ]_vars

\* C21, amended: the rewrite is tried in exactly the calls that carry
\* --force, and it happens unless opening the file fails, which is
\* ignored; a call that does not rewrite leaves the file to the command
\* as it was.
C21_ForceIffAttemptedOrForcedAmended ==
    [][(BootStep /\ boot_last'.outcome # "bailed")
       => LET forced == MYSQL_ROUTER_BOOTSTRAP_ATTEMPTED \in flags
                        \/ boot_last'.force
          IN  /\ "--force" \in Args(boot_last'.cmd) <=> forced
              /\ boot_last'.tried_write <=> forced
              /\ boot_last'.wrote => boot_last'.tried_write
              /\ boot_last'.wrote => boot_last'.conf_at_invoke = ClearedConf
              /\ ~boot_last'.wrote => boot_last'.conf_at_invoke = conf
      ]_vars

\* An unforced call after a failed one: --force, and the file rewritten
C21_Witness ==
    /\ boot_last.op = "bootstrap_mysqlrouter"
    /\ ~boot_last.force
    /\ boot_last.was_attempted
    /\ boot_last.after = "failed"
    /\ "--force" \in Args(boot_last.cmd)
    /\ boot_last.wrote
    /\ boot_last.conf_at_invoke = ClearedConf

C30_FailureSetsNoFlag ==
    (boot_last.op = "bootstrap_mysqlrouter" /\ boot_last.outcome = "failed")
    => boot_last.set_flag = <<>>

(***************************************************************************)
(* check_mysql_connection, retry_conection_check, custom_restart_function. *)
(***************************************************************************)

_waiting_for_initial_communication_packet_error == 2013
_cannot_connect_via_ip == 2003

\* stop=tenacity.stop_after_attempt(5) of retry_conection_check
retry_conection_check_attempts == 5

\* stop=tenacity.stop_after_attempt(5) of custom_restart_function
custom_restart_function_attempts == 5

\* What m_helper.connect may do: return, raise OperationalError with one of
\* the two codes the charm waits on or with another code (1045, access
\* denied), or raise an exception of another type
ConnectOutcomes ==
    {[kind |-> "ok", code |-> 0],
     [kind |-> "OperationalError", code |-> 2003],
     [kind |-> "OperationalError", code |-> 2013],
     [kind |-> "OperationalError", code |-> 1045],
     [kind |-> "Exception", code |-> 0]}

\* A faulty variant of CheckMysqlConnection: every OperationalError is
\* raised again when reraise_on is given
CheckMysqlConnectionRaisesAll(reraise_on, outcome) ==
    IF outcome.kind = "ok" THEN [raised |-> FALSE, ret |-> "True"]
    ELSE IF outcome.kind = "OperationalError"
    THEN IF reraise_on = {} THEN [raised |-> FALSE, ret |-> "False"]
         ELSE [raised |-> TRUE, ret |-> "None"]
    ELSE [raised |-> TRUE, ret |-> "None"]

\* check_mysql_connection(reraise_on) when connect does outcome: whether it
\* raises, and what it returns otherwise (reraise_on = {} stands for None
\* and for the empty list)
CheckMysqlConnection(reraise_on, outcome) ==
    IF outcome.kind = "ok" THEN [raised |-> FALSE, ret |-> "True"]
    ELSE IF outcome.kind = "OperationalError"
    THEN IF reraise_on = {} THEN [raised |-> FALSE, ret |-> "False"]
         ELSE IF outcome.code \in reraise_on
         THEN [raised |-> TRUE, ret |-> "None"]
         ELSE [raised |-> FALSE, ret |-> "None"]
    ELSE [raised |-> TRUE, ret |-> "None"]

\* A faulty variant of RetryReraiseOn: error 2003 is left out
RetryReraiseOnPacketOnly ==
    {_waiting_for_initial_communication_packet_error}

\* reraise_on as retry_conection_check passes it
RetryReraiseOn ==
    {_waiting_for_initial_communication_packet_error, _cannot_connect_via_ip}

\* The record of a check_mysql_connection call
CheckRecord(reraise_on, outcome) ==
    [op |-> "check_mysql_connection", reraise_on |-> reraise_on,
     outcome |-> outcome,
     raised |-> CheckMysqlConnection(reraise_on, outcome).raised,
     ret |-> CheckMysqlConnection(reraise_on, outcome).ret]

\* A faulty variant of RestartRetries: every exception is retried
RestartRetriesAny(error) == TRUE

\* retry=tenacity.retry_if_exception_type(OperationalError)
RestartRetries(error) == error.kind = "OperationalError"

InitRestart ==
    /\ IdleRequests /\ IdleResponses /\ IdleConf /\ IdleBoot /\ IdleRestart /\ IdleHandlers

\* custom_restart_function(service_name) is called: its first attempt begins
custom_restart_function ==
    /\ restart.status \in {"idle", "returned", "raised"}
    /\ restart' = [NoRestart EXCEPT !.status = "stop", !.attempt = 1]
    /\ UNCHANGED <<last_check, assess_last, reqVars, respVars, confVars,
                   bootVars, handVars>>

\* self.service_stop(service_name)
service_stop ==
    /\ restart.status = "stop"
    /\ restart' = [restart EXCEPT !.status = "start",
                                  !.events = Append(@, "service_stop"),
                                  !.stops = @ + 1]
    /\ service' = "stopped"
    /\ UNCHANGED <<last_check, assess_last, reqVars, respVars, confVars,
                   bootVars, handler_last, history, service_last>>

\* self.service_start(service_name); retry_conection_check is entered
service_start ==
    /\ restart.status = "start"
    /\ restart' = [restart EXCEPT !.status = "check",
                                  !.events = Append(@, "service_start"),
                                  !.starts = @ + 1,
                                  !.probe_status = "running",
                                  !.probe_attempt = 0,
                                  !.codes = <<>>]
    /\ service' = "running"
    /\ UNCHANGED <<last_check, assess_last, reqVars, respVars, confVars,
                   bootVars, handler_last, history, service_last>>

\* One attempt of retry_conection_check inside custom_restart_function, and
\* what the two tenacity decorators do with its result
retry_conection_check(outcome) ==
    LET r == CheckMysqlConnection(RetryReraiseOn, outcome)
        n == restart.probe_attempt + 1
        tried == [restart EXCEPT !.probe_attempt = n,
                                 !.codes = Append(@, outcome),
                                 !.events = Append(@, "connect"),
                                 !.connects = @ + 1]
    IN  /\ restart.status = "check"
        /\ last_check' = CheckRecord(RetryReraiseOn, outcome)
        /\ restart' =
             IF ~r.raised
             THEN [tried EXCEPT !.status = "returned",
                                !.probe_status = "returned"]
             ELSE IF outcome.kind = "OperationalError"
                     /\ n < retry_conection_check_attempts
             THEN tried
             ELSE IF RestartRetries(outcome)
                     /\ restart.attempt < custom_restart_function_attempts
             THEN [tried EXCEPT !.status = "stop",
                                !.probe_status = "raised",
                                !.attempt = @ + 1,
                                !.events = <<>>,
                                !.error = outcome]
             ELSE [tried EXCEPT !.status = "raised",
                                !.probe_status = "raised",
                                !.error = outcome]
        /\ UNCHANGED <<assess_last, reqVars, respVars, confVars, bootVars, handVars>>

\* The default checks, in the order of the loop
StatusChecks ==
    <<"check_if_paused", "check_interfaces", "check_mandatory_config">>

\* (None, None): a check has nothing to report
AllIsWell == <<None, None>>

\* What the three default checks may return, in the order of StatusChecks
StatusResults ==
    {<<a, b, c>> :
        a \in {AllIsWell, <<"maintenance", "Paused">>},
        b \in {AllIsWell, <<"blocked", "'db-router' missing">>,
                <<"waiting", "'shared-db' incomplete">>},
        c \in {AllIsWell, <<"blocked", "mandatory config missing">>}}

\* The three default checks have nothing to report
StatusResultsWell == <<AllIsWell, AllIsWell, AllIsWell>>

\* A faulty variant of FirstProblem: the last check with a state wins
LastProblem(results) ==
    IF \A i \in DOMAIN results : results[i][1] = None THEN 0
    ELSE CHOOSE i \in DOMAIN results :
            /\ results[i][1] # None
            /\ \A j \in DOMAIN results : results[j][1] # None => j <= i

\* The position of the first check whose state is not None, as the loop
\* finds it; 0 when there is none
FirstProblem(results) ==
    IF \A i \in DOMAIN results : results[i][1] = None THEN 0
    ELSE CHOOSE i \in DOMAIN results :
            /\ results[i][1] # None
            /\ \A j \in DOMAIN results : results[j][1] # None => i <= j

\* MySQLRouterCharm.custom_assess_status_check(); results: what the three
\* default checks return when called; outcome: what connect does
custom_assess_status_check(results, outcome) ==
    LET first == FirstProblem(results)
        r     == CheckMysqlConnection({}, outcome)
    IN  /\ restart.status \in {"idle", "returned", "raised"}
        /\ IF first # 0
           THEN /\ assess_last' =
                     [op |-> "custom_assess_status_check",
                      ran |-> SubSeq(StatusChecks, 1, first),
                      results |-> SubSeq(results, 1, first),
                      status_set |-> results[first],
                      probed |-> FALSE, raised |-> FALSE,
                      ret |-> results[first],
                      calls |-> 1 - assess_last.calls]
                /\ UNCHANGED last_check
           ELSE /\ assess_last' =
                     [op |-> "custom_assess_status_check",
                      ran |-> StatusChecks,
                      results |-> results,
                      status_set |-> <<>>,
                      probed |-> TRUE, raised |-> r.raised,
                      ret |-> IF r.raised THEN <<>>
                              ELSE IF r.ret = "True" THEN AllIsWell
                              ELSE <<"blocked", "Failed to connect to MySQL">>,
                      calls |-> 1 - assess_last.calls]
                /\ last_check' = CheckRecord({}, outcome)
        /\ UNCHANGED <<restart, reqVars, respVars, confVars, bootVars,
                       handVars>>

RestartStep ==
    \/ service_stop
    \/ service_start
    \/ \E outcome \in ConnectOutcomes : retry_conection_check(outcome)

NextRestart ==
    \/ custom_restart_function
    \/ RestartStep
    \/ \E outcome \in ConnectOutcomes :
          custom_assess_status_check(StatusResultsWell, outcome)

SpecRestart == InitRestart /\ [][NextRestart]_vars

\* The handler runs to completion: a call that has begun takes its next step
SpecRestartFair == SpecRestart /\ WF_vars(RestartStep)

\* C14 (as claimed; the code does not satisfy it): check_mysql_connection
\* returns True when the connection succeeds; on OperationalError it raises
\* when the code is in reraise_on and returns False otherwise, whatever
\* reraise_on is.
C14_FailureReturnsFalse ==
    last_check.op = "check_mysql_connection" =>
        /\ last_check.outcome.kind = "ok" =>
              (~last_check.raised /\ last_check.ret = "True")
        /\ last_check.outcome.kind = "OperationalError" =>
              IF last_check.outcome.code \in last_check.reraise_on
              THEN last_check.raised
              ELSE ~last_check.raised /\ last_check.ret = "False"

\* The attempt failed with one of the two codes retry_conection_check
\* waits on
TransientFailure(outcome) ==
    outcome.kind = "OperationalError" /\ outcome.code \in {2003, 2013}

\* What holds of the attempts of one retry_conection_check run
C15_AttemptsInv ==
    /\ restart.probe_attempt <= 5
    /\ Len(restart.codes) = restart.probe_attempt
    /\ \A i \in 1..(Len(restart.codes) - 1) : TransientFailure(restart.codes[i])
    /\ restart.probe_status = "running" => restart.probe_attempt < 5
    /\ restart.probe_status = "returned" =>
          /\ restart.probe_attempt >= 1
          /\ ~TransientFailure(restart.codes[restart.probe_attempt])
          /\ restart.codes[restart.probe_attempt].kind # "Exception"
    /\ (restart.probe_status = "raised"
        /\ restart.error.kind = "OperationalError") =>
          /\ restart.probe_attempt = 5
          /\ TransientFailure(restart.codes[5])
          /\ restart.error = restart.codes[5]

\* C15: retry_conection_check makes at most 5 connection attempts, each
\* but the first after an attempt that failed with code 2003 or 2013; it
\* returns at the first attempt that does not raise; when five attempts
\* raised, the error of the fifth reaches the caller; and every run ends.
C15_RetryBoundedAndTerminates ==
    /\ []C15_AttemptsInv
    /\ (restart.probe_status = "running")
          ~> (restart.probe_status \in {"returned", "raised"})

C15_Witness ==
    /\ restart.probe_status = "raised"
    /\ restart.probe_attempt = 5
    /\ restart.codes[1].code = 2003
    /\ restart.codes[5].code = 2013
    /\ restart.error = restart.codes[5]
    /\ restart.connects = 5

\* What holds of the attempts of one custom_restart_function call
C16_AttemptsInv ==
    /\ restart.attempt <= 5
    /\ restart.stops <= 5 /\ restart.starts <= 5 /\ restart.connects <= 25
    /\ Len(restart.events) <= 7
    /\ \A i \in DOMAIN restart.events :
          restart.events[i] = IF i = 1 THEN "service_stop"
                              ELSE IF i = 2 THEN "service_start"
                              ELSE "connect"
    /\ restart.status \in {"check", "returned", "raised"} =>
          /\ restart.stops = restart.attempt
          /\ restart.starts = restart.attempt
          /\ Len(restart.events) >= 2
    /\ restart.status \in {"returned", "raised"} => Len(restart.events) >= 3
    /\ (restart.status = "raised" /\ restart.error.kind = "OperationalError")
          => /\ restart.attempt = 5
             /\ restart.connects = 25
             /\ restart.error = restart.codes[5]

\* C16: an attempt of custom_restart_function is service stop, service
\* start, then the connection attempts of retry_conection_check, in that
\* order; a further attempt begins only after the check ended in
\* OperationalError, at most 5 attempts are made (5 stops, 5 starts, 25
\* connections), the last error is raised after the fifth, and an exception
\* of another type is raised at once.
C16_RestartAttempts ==
    /\ []C16_AttemptsInv
    /\ [][/\ (restart.attempt >= 1 /\ restart'.attempt = restart.attempt + 1)
              => /\ restart.status = "check"
                 /\ restart.probe_attempt = 4
                 /\ last_check'.raised
                 /\ last_check'.outcome.kind = "OperationalError"
          /\ (restart.status = "check" /\ restart' # restart
              /\ last_check'.outcome.kind = "Exception")
              => /\ restart'.status = "raised"
                 /\ restart'.error.kind = "Exception"
                 /\ restart'.attempt = restart.attempt
                 /\ restart'.stops = restart.stops
        ]_vars

C16_Witness ==
    /\ restart.status = "raised"
    /\ restart.attempt = 5
    /\ restart.stops = 5 /\ restart.starts = 5 /\ restart.connects = 25
    /\ restart.events[1] = "service_stop"
    /\ restart.events[2] = "service_start"
    /\ restart.error.code = 2013

(***************************************************************************)
(* The reactive handlers and the flags that gate them.                     *)
(***************************************************************************)

MYSQL_ROUTER_STARTED == "charm.mysqlrouter.started"
DB_ROUTER_AVAILABLE == "db-router.available"
DB_ROUTER_PROXY_AVAILABLE == "db-router.available.proxy"
CHARM_INSTALLED == "charm.installed"
SHARED_DB_AVAILABLE == "shared-db.available"

\* The flags the relation endpoints set and clear
RelationFlags == {DB_ROUTER_AVAILABLE, DB_ROUTER_PROXY_AVAILABLE, SHARED_DB_AVAILABLE}

\* A faulty variant of StartHandlerReady: the bootstrapped flag is not asked
StartHandlerReadyUnbootstrapped(fl) ==
    /\ {CHARM_INSTALLED, DB_ROUTER_AVAILABLE} \subseteq fl
    /\ MYSQL_ROUTER_STARTED \notin fl

\* A faulty variant of BootstrapHandlerReady: the handler is for the first
\* attempt only
BootstrapHandlerReadyFirstOnly(fl) ==
    /\ {CHARM_INSTALLED, DB_ROUTER_AVAILABLE} \subseteq fl
    /\ MYSQL_ROUTER_BOOTSTRAPPED \notin fl
    /\ MYSQL_ROUTER_BOOTSTRAP_ATTEMPTED \notin fl

\* The decorators of the handler bootstrap_mysqlrouter
BootstrapHandlerReady(fl) ==
    /\ {CHARM_INSTALLED, DB_ROUTER_AVAILABLE} \subseteq fl
    /\ MYSQL_ROUTER_BOOTSTRAPPED \notin fl

\* The decorators of the handler start_mysqlrouter
StartHandlerReady(fl) ==
    /\ {CHARM_INSTALLED, DB_ROUTER_AVAILABLE, MYSQL_ROUTER_BOOTSTRAPPED}
          \subseteq fl
    /\ MYSQL_ROUTER_STARTED \notin fl

\* A faulty variant of RequestsHandlerReady: the started flag is not asked
RequestsHandlerReadyUnstarted(fl) ==
    {DB_ROUTER_AVAILABLE, SHARED_DB_AVAILABLE} \subseteq fl

\* The decorators of the handler proxy_shared_db_requests
RequestsHandlerReady(fl) ==
    {MYSQL_ROUTER_STARTED, DB_ROUTER_AVAILABLE, SHARED_DB_AVAILABLE}
        \subseteq fl

\* The decorators of the handler proxy_shared_db_responses
ResponsesHandlerReady(fl) ==
    {MYSQL_ROUTER_STARTED, DB_ROUTER_PROXY_AVAILABLE, SHARED_DB_AVAILABLE}
        \subseteq fl

\* The request bag of the client unit of this world: the bare triple
HandlerBag == SetAll(<<>>, <<"database", "username", "hostname">>)

\* What the cluster answers in this world: the router's own user and the
\* client's
HandlerPrefixes ==
    << [prefix |-> db_prefix, password |-> JsonDumps(PasswordOf(db_prefix)),
        allowed_units |-> JsonDumps("mr/1")],
       [prefix |-> _unprefixed, password |-> JsonDumps(PasswordOf(_unprefixed)),
        allowed_units |-> JsonDumps("mr/1")] >>

\* What the mysqlrouter command may do in this world: succeed, or fail
\* leaving the file alone
HandlerResults ==
    {r \in BinaryResults :
        /\ ~r.truncated
        /\ r.success => (r.size = 1600 /\ Len(r.doc.sections) = 1)}

InitHandlers ==
    /\ IdleRequests /\ IdleResponses /\ IdleConf /\ IdleBoot /\ IdleRestart
    /\ IdleHandlers

\* The default handler installs the charm and sets charm.installed
charm_installed ==
    /\ CHARM_INSTALLED \notin flags
    /\ flags' = flags \cup {CHARM_INSTALLED}
    /\ UNCHANGED <<boot_last, validate_last, reqVars, respVars, confVars,
                   restartVars, handVars>>

\* A relation endpoint sets its flag; with shared-db.available the client
\* unit and its request are there, with db-router.available.proxy the
\* cluster's answers
relation_flag_set(f) ==
    /\ f \notin flags
    /\ flags' = flags \cup {f}
    /\ received' = IF f = SHARED_DB_AVAILABLE THEN HandlerBag ELSE received
    /\ joined_units' = IF f = SHARED_DB_AVAILABLE THEN <<"keystone/7">>
                       ELSE joined_units
    /\ up_prefixes' = IF f = DB_ROUTER_PROXY_AVAILABLE THEN HandlerPrefixes
                      ELSE up_prefixes
    /\ UNCHANGED <<proxy_calls, req_ran, up_wait_timeout, up_ssl_ca,
                   raw_ssl_ca, published, resp_ran, up_read, boot_last,
                   validate_last,
                   confVars, restartVars, handVars>>

\* A relation endpoint clears its flag: the relation is gone
relation_flag_cleared(f) ==
    /\ f \in flags
    /\ flags' = flags \ {f}
    /\ received' = IF f = SHARED_DB_AVAILABLE THEN <<>> ELSE received
    /\ joined_units' = IF f = SHARED_DB_AVAILABLE THEN <<>> ELSE joined_units
    /\ up_prefixes' = IF f = DB_ROUTER_PROXY_AVAILABLE THEN <<>>
                      ELSE up_prefixes
    /\ UNCHANGED <<proxy_calls, req_ran, up_wait_timeout, up_ssl_ca,
                   raw_ssl_ca, published, resp_ran, up_read, boot_last,
                   validate_last,
                   confVars, restartVars, handVars>>

\* The handler bootstrap_mysqlrouter: instance.bootstrap_mysqlrouter()
handler_bootstrap_mysqlrouter(pkgver, password_raw, result) ==
    /\ BootstrapHandlerReady(flags)
    /\ BootstrapCall("handler", FALSE, pkgver, password_raw, TRUE, result)
    /\ handler_last' = [name |-> "bootstrap_mysqlrouter", flags |-> flags]
    /\ history' = [history EXCEPT !.bootstrap_succeeded =
                      @ \/ (~Bails(FALSE, flags) /\ result.success)]
    /\ UNCHANGED <<service, service_last, validate_last, patch_last,
                   config_last, reqVars,
                   respVars, restartVars>>

\* The handler start_mysqlrouter: instance.start_mysqlrouter(), which is
\* service_start and set_flag(MYSQL_ROUTER_STARTED)
handler_start_mysqlrouter ==
    /\ StartHandlerReady(flags)
    /\ service' = "running"
    /\ flags' = flags \cup {MYSQL_ROUTER_STARTED}
    /\ handler_last' = [name |-> "start_mysqlrouter", flags |-> flags]
    /\ history' = [history EXCEPT !.start_ran = TRUE]
    /\ UNCHANGED <<service_last, boot_last, validate_last, reqVars, respVars,
                   confVars, restartVars>>

\* The handler proxy_shared_db_requests
proxy_shared_db_requests ==
    /\ RequestsHandlerReady(flags)
    /\ proxy_calls' = ProxyCalls(get_db_data(received, _unprefixed))
    /\ req_ran' = TRUE
    /\ handler_last' = [name |-> "proxy_shared_db_requests", flags |-> flags]
    /\ UNCHANGED <<received, service, history, service_last, respVars,
                   confVars, bootVars,
                   restartVars>>

\* The handler proxy_shared_db_responses
proxy_shared_db_responses ==
    /\ ResponsesHandlerReady(flags)
    /\ published' = ResponsePass.published
    /\ raw_ssl_ca' = ResponsePass.raw_ssl_ca
    /\ up_read' = ResponsePass.read
    /\ resp_ran' = TRUE
    /\ handler_last' = [name |-> "proxy_shared_db_responses", flags |-> flags]
    /\ UNCHANGED <<up_prefixes, up_wait_timeout, up_ssl_ca, joined_units,
                   service, history, service_last, reqVars, confVars, bootVars,
                   restartVars>>

NextHandlers ==
    \/ charm_installed
    \/ \E f \in RelationFlags : relation_flag_set(f)
    \/ \E f \in RelationFlags : relation_flag_cleared(f)
    \/ \E pkgver \in BootVersionPool, password_raw \in BootPasswordPool,
          result \in HandlerResults :
          handler_bootstrap_mysqlrouter(pkgver, password_raw, result)
    \/ handler_start_mysqlrouter
    \/ proxy_shared_db_requests
    \/ proxy_shared_db_responses

SpecHandlers == InitHandlers /\ [][NextHandlers]_vars

\* A run of the handler bootstrap_mysqlrouter
BootstrapHandlerStep ==
    \E pkgver \in BootVersionPool, password_raw \in BootPasswordPool,
       result \in HandlerResults :
       handler_bootstrap_mysqlrouter(pkgver, password_raw, result)

\* Events keep being delivered: a handler whose flags stay as its
\* decorators ask is run
SpecHandlersFair == SpecHandlers /\ WF_vars(BootstrapHandlerStep)

\* C17: the handler start_mysqlrouter runs only with charm.installed,
\* db-router.available and the bootstrapped flag set and the started flag
\* clear; the handler bootstrap_mysqlrouter only with charm.installed and
\* db-router.available set and the bootstrapped flag clear; the service is
\* not started before a bootstrap has succeeded.
C17_StartAfterBootstrap ==
    /\ handler_last.name = "start_mysqlrouter" =>
          /\ {"charm.installed", "db-router.available",
              "charm.mysqlrouter.bootstrapped"} \subseteq handler_last.flags
          /\ "charm.mysqlrouter.started" \notin handler_last.flags
    /\ handler_last.name = "bootstrap_mysqlrouter" =>
          /\ {"charm.installed", "db-router.available"}
                \subseteq handler_last.flags
          /\ "charm.mysqlrouter.bootstrapped" \notin handler_last.flags
    /\ (history.start_ran \/ service = "running")
          => history.bootstrap_succeeded

C17_Witness ==
    /\ handler_last.name = "start_mysqlrouter"
    /\ service = "running"
    /\ history.bootstrap_succeeded
    /\ "charm.mysqlrouter.started" \in flags
    /\ boot_last.outcome = "ok"

\* C18: the handlers of the two relays run only with the started flag set,
\* together with shared-db.available and db-router.available (requests) or
\* db-router.available.proxy (responses); no request is forwarded and no
\* response published before start_mysqlrouter has run.
C18_RelaysAfterStart ==
    /\ handler_last.name = "proxy_shared_db_requests" =>
          {"charm.mysqlrouter.started", "db-router.available",
           "shared-db.available"} \subseteq handler_last.flags
    /\ handler_last.name = "proxy_shared_db_responses" =>
          {"charm.mysqlrouter.started", "db-router.available.proxy",
           "shared-db.available"} \subseteq handler_last.flags
    /\ (req_ran \/ resp_ran \/ proxy_calls # <<>> \/ published # <<>>)
          => history.start_ran

C18_Witness ==
    /\ history.start_ran
    /\ Len(proxy_calls) = 1
    /\ Len(published) = 1
    /\ handler_last.name = "proxy_shared_db_responses"

\* The last bootstrap was run by the handler and did not succeed
BootstrapUnconfirmed ==
    /\ boot_last.caller = "handler"
    /\ boot_last.outcome \in {"failed", "crashed"}

\* C23: while charm.installed and db-router.available stay set, a failed
\* or interrupted bootstrap is followed by another run of the handler: the
\* handler stays ready after every failure; and once the command has
\* succeeded the bootstrapped flag is set and the attempted flag clear.
C23_BootstrapRetried ==
    /\ [](BootstrapUnconfirmed =>
             /\ MYSQL_ROUTER_BOOTSTRAP_ATTEMPTED \in flags
             /\ MYSQL_ROUTER_BOOTSTRAPPED \notin flags
             /\ ({CHARM_INSTALLED, DB_ROUTER_AVAILABLE} \subseteq flags
                    => ENABLED BootstrapHandlerStep))
    /\ [](history.bootstrap_succeeded =>
             /\ MYSQL_ROUTER_BOOTSTRAPPED \in flags
             /\ MYSQL_ROUTER_BOOTSTRAP_ATTEMPTED \notin flags)
    /\ \A c \in {0, 1} :
          (BootstrapUnconfirmed /\ boot_last.calls = c)
              ~> \/ boot_last.calls # c
                 \/ ~({CHARM_INSTALLED, DB_ROUTER_AVAILABLE} \subseteq flags)

\* The handler's run after a failed one succeeded, with --force
C23_Witness ==
    /\ boot_last.caller = "handler"
    /\ boot_last.after = "failed"
    /\ boot_last.outcome = "ok"
    /\ "--force" \in Args(boot_last.cmd)
    /\ handler_last.name = "bootstrap_mysqlrouter"
    /\ MYSQL_ROUTER_BOOTSTRAPPED \in flags
    /\ MYSQL_ROUTER_BOOTSTRAP_ATTEMPTED \notin flags

\* The outcome of the last connection attempt of the restart
LastConnect == restart.codes[Len(restart.codes)]

\* C36 (as claimed; the code does not satisfy it): custom_restart_function
\* returns normally only if the connection of its last attempt succeeded;
\* a failed connection, whatever its error code, never lets the restart
\* complete as a success.
C36_ReturnsOnlyAfterConnect ==
    restart.status = "returned" =>
        /\ restart.codes # <<>>
        /\ LastConnect.kind = "ok"

\* C36 (amended): custom_restart_function returns normally only if, in its
\* last attempt, the connection succeeded or failed with an
\* OperationalError whose code is neither 2013 nor 2003; a connection that
\* failed with one of these two codes, or with another exception, never
\* lets the restart complete as a success.
C36_ReturnsOnlyAfterConnectAmended ==
    restart.status = "returned" =>
        /\ restart.codes # <<>>
        /\ restart.events = <<"service_stop", "service_start">>
                               \o [i \in 1..restart.probe_attempt |-> "connect"]
        /\ \/ LastConnect.kind = "ok"
           \/ /\ LastConnect.kind = "OperationalError"
              /\ LastConnect.code \notin
                    {_waiting_for_initial_communication_packet_error,
                     _cannot_connect_via_ip}

\* A restart that returned after the connection was refused twice and
\* then succeeded
C36_Witness ==
    /\ restart.status = "returned"
    /\ Len(restart.codes) = 3
    /\ restart.codes[1] = [kind |-> "OperationalError", code |-> 2003]
    /\ restart.codes[2] = [kind |-> "OperationalError", code |-> 2013]
    /\ LastConnect.kind = "ok"
    /\ service = "running"

(***************************************************************************)
(* config_changed.                                                         *)
(***************************************************************************)

\* ch_core.hookenv.hook_name() of the hooks config_changed runs in
HookNames == {"config-changed", "upgrade-charm"}

\* A faulty variant of InUpgradeHook: the hook is never recognised
InUpgradeHookNever(hook) == FALSE

\* 'upgrade-charm' in ch_core.hookenv.hook_name().lower()
InUpgradeHook(hook) == StrIn("upgrade-charm", Lower(hook))

\* A faulty variant of FileChanged: the file written is not the one watched
FileChangedNever(before, before_size, after, after_size) == FALSE

\* A faulty variant of FileChanged: the restart does not depend on the file
FileChangedAlways(before, before_size, after, after_size) == TRUE

\* ch_core.host.restart_on_change: the file of restart_map has another
\* checksum after the block than before it (no checksum when it is missing)
FileChanged(before, before_size, after, after_size) ==
    before # after \/ before_size # after_size

\* The files of this world: one section, which the patchset matches or
\* does not match in full
ConfigDocs ==
    {doc \in ConfDocs :
        /\ Len(doc.sections) = 1
        /\ doc.sections[1][1] \in {"metadata_cache:jujuCluster", "logger_extra"}}

\* The charm options and installed versions of this world
ConfigOptionsPool == {options \in OptionsPool : options.ttl = "5"}
ConfigVersionPool == {<<8, 0, 22>>, <<8, 0, 27>>}

\* The bytes of the comment lines mysqlrouter --bootstrap puts at the head
\* of the file it generates, which ConfigParser does not write back
CommentSize == Len("# File automatically generated during MySQL Router bootstrap") + 1

\* Files with the sections of bug 1927981: a cluster that is not named
\* jujuCluster, with and without the hard-coded section, and a cluster
\* name that the metadata_cache pattern does not match
UpgradeDocs ==
    {[exists |-> TRUE, defaults |-> d, sections |-> q] :
        d \in {<<>>, << <<"user", "mysql">> >>},
        q \in LET juju == <<"metadata_cache:jujuCluster",
                            << <<"user", "mysqlrouteruser">>, <<"ttl", "0.5">> >> >>
                  my == <<"metadata_cache:myCluster",
                          << <<"user", "mysqlrouteruser">>, <<"ttl", "0.5">> >> >>
                  other == <<"metadata_cache:my-cluster",
                             << <<"user", "mysqlrouteruser">> >> >>
              IN  {<<juju, my>>, <<my, juju>>, <<juju, other>>, <<my, other>>}}

\* A file whose [DEFAULT] has client_ssl_mode and no client_ssl_cert
SslModeDocs ==
    {[exists |-> TRUE,
      defaults |-> << <<"user", "mysql">>, <<"client_ssl_mode", "PREFERRED">> >>,
      sections |-> << <<"logger_extra", << <<"sinks", "syslog">> >> >> >>]}

InitConfig ==
    /\ IdleRequests /\ IdleResponses /\ IdleBoot /\ IdleRestart /\ IdleHandlers
    /\ conf \in {NoFile} \cup ConfigDocs \cup SslModeDocs
    /\ conf_size \in (IF conf.exists
                      THEN {WriteSize(conf), WriteSize(conf) + CommentSize}
                      ELSE {0})
    /\ patch_last = [op |-> "none", parameters |-> <<>>, repeated |-> FALSE]
    /\ config_last = NoConfigChanged

\* The body of config_changed outside the upgrade-charm hook:
\* update_config_parameters(parameters) leaves the file after (after_size
\* bytes) inside restart_on_change
ConfigChangedBody(hook, pkgver, ca, parameters, after, after_size) ==
    /\ conf' = after
    /\ conf_size' = after_size
    /\ patch_last' = [op |-> "update_config_parameters",
                      parameters |-> parameters,
                      repeated |-> patch_last.op = "update_config_parameters"
                                   /\ patch_last.parameters = parameters]
    /\ config_last' = [op |-> "config_changed", hook |-> hook,
                       skipped |-> FALSE, existed |-> conf.exists,
                       changed |-> after # conf \/ after_size # conf_size,
                       restarted |-> FileChanged(conf, conf_size,
                                                 after, after_size),
                       calls |-> 1 - config_last.calls,
                       upgrades |-> config_last.upgrades,
                       removed |-> FALSE, pkgver |-> pkgver, ssl_ca |-> ca]
    /\ restart' = IF FileChanged(conf, conf_size, after, after_size)
                  THEN [NoRestart EXCEPT !.status = "stop", !.attempt = 1]
                  ELSE restart
    /\ UNCHANGED <<last_check, assess_last, reqVars, respVars, bootVars,
                   handVars>>

\* MySQLRouterCharm.config_changed() in the hook named hook, with the
\* charm options, the installed version and the CA of the cluster relation
config_changed(hook, options, pkgver, ca) ==
    IF InUpgradeHook(hook)
    THEN /\ config_last' = [op |-> "config_changed", hook |-> hook,
                            skipped |-> TRUE, existed |-> conf.exists,
                            changed |-> FALSE, restarted |-> FALSE,
                            calls |-> 1 - config_last.calls,
                            upgrades |-> config_last.upgrades,
                            removed |-> FALSE,
                            pkgver |-> pkgver, ssl_ca |-> ca]
         /\ UNCHANGED <<conf, conf_size, patch_last, restart, last_check,
                        assess_last,
                        reqVars, respVars, bootVars, handVars>>
    ELSE \E parameters \in {_get_config_parameters(options, pkgver, conf, ca)} :
         \E after \in {UpdateConfigParameters(parameters, conf)} :
         \E after_size \in {IF conf.exists THEN WriteSize(after) ELSE conf_size} :
             ConfigChangedBody(hook, pkgver, ca, parameters, after, after_size)

\* filter(lambda x: x.startswith('metadata_cache'), config.sections())
MetadataCacheSections(config) ==
    SelectSeq(SectionNames(config), LAMBDA x : StartsWith(x, "metadata_cache"))

\* A faulty variant of RemovesJujuCluster: the section is always removed
RemovesJujuClusterAlways(config) == TRUE

\* len(sections) > 1 and 'metadata_cache:jujuCluster' in sections
RemovesJujuCluster(config) ==
    LET sections == MetadataCacheSections(config)
    IN  /\ Len(sections) > 1
        /\ \E i \in DOMAIN sections : sections[i] = "metadata_cache:jujuCluster"

\* The ConfigParser object of upgrade_charm before update_config_parameters:
\* unknown_config_option is set when [DEFAULT] lacks it, and the
\* hard-coded section is removed
UpgradeConfig(config) ==
    LET c1 == IF "unknown_config_option" \notin DictKeys(config.defaults)
              THEN [config EXCEPT !.defaults =
                       DictSet(@, "unknown_config_option", "warning")]
              ELSE config
    IN  IF RemovesJujuCluster(c1)
        THEN [c1 EXCEPT !.sections =
                 SelectSeq(@, LAMBDA e : e[1] # "metadata_cache:jujuCluster")]
        ELSE c1

\* update_config_parameters(parameters, config=config): the file it leaves
UpdateConfigParametersWith(parameters, config, file) ==
    IF ~file.exists THEN file
    ELSE ConfigWrite(ApplyHeadings(parameters, 1, config))

\* MySQLRouterCharm.upgrade_charm(), inside restart_on_change; the
\* parameters are computed from the file on disk
upgrade_charm(options, pkgver, ca) ==
    \E parameters \in {_get_config_parameters(options, pkgver, conf, ca)} :
    \E after \in {UpdateConfigParametersWith(
                     parameters, UpgradeConfig(ConfigRead(conf)), conf)} :
    \E after_size \in {IF conf.exists THEN WriteSize(after) ELSE conf_size} :
        /\ conf' = after
        /\ conf_size' = after_size
        /\ patch_last' = [op |-> "update_config_parameters",
                          parameters |-> parameters,
                          repeated |-> FALSE]
        /\ config_last' = [op |-> "upgrade_charm", hook |-> "upgrade-charm",
                           skipped |-> FALSE, existed |-> conf.exists,
                           changed |-> after # conf \/ after_size # conf_size,
                           restarted |-> FileChanged(conf, conf_size,
                                                     after, after_size),
                           calls |-> config_last.calls,
                           upgrades |-> 1 - config_last.upgrades,
                           removed |-> RemovesJujuCluster(ConfigRead(conf)),
                           pkgver |-> pkgver, ssl_ca |-> ca]
        /\ restart' = IF FileChanged(conf, conf_size, after, after_size)
                      THEN [NoRestart EXCEPT !.status = "stop", !.attempt = 1]
                      ELSE restart
        /\ UNCHANGED <<last_check, assess_last, reqVars, respVars, bootVars,
                       handVars>>

NextConfig ==
    \/ \E hook \in HookNames, options \in ConfigOptionsPool,
          pkgver \in ConfigVersionPool, ca \in {None, "CA"} :
          config_changed(hook, options, pkgver, ca)
    \/ \E parameters \in
            {_get_config_parameters(options, pkgver, conf, None) :
                options \in ConfigOptionsPool, pkgver \in ConfigVersionPool} :
          update_config_parameters(parameters)

SpecConfig == InitConfig /\ [][NextConfig]_vars

\* The upgrade of the charm: upgrade_charm on the file the old charm left
InitUpgrade ==
    /\ IdleRequests /\ IdleResponses /\ IdleBoot /\ IdleRestart /\ IdleHandlers
    /\ conf \in {NoFile} \cup ConfigDocs \cup UpgradeDocs
    /\ conf_size \in (IF conf.exists
                      THEN {WriteSize(conf), WriteSize(conf) + CommentSize}
                      ELSE {0})
    /\ patch_last = [op |-> "none", parameters |-> <<>>, repeated |-> FALSE]
    /\ config_last = NoConfigChanged

NextUpgrade ==
    \E options \in ConfigOptionsPool, pkgver \in ConfigVersionPool,
       ca \in {None, "CA"} :
       upgrade_charm(options, pkgver, ca)

SpecUpgrade == InitUpgrade /\ [][NextUpgrade]_vars

\* A step that is an upgrade_charm call
UpgradeStep == config_last'.upgrades # config_last.upgrades

\* The names of the metadata_cache sections of a file
MetadataCacheNames(file) ==
    {file.sections[i][1] : i \in {j \in DOMAIN file.sections :
        StartsWith(file.sections[j][1], "metadata_cache")}}

\* C32: upgrade_charm removes the section metadata_cache:jujuCluster
\* exactly when the file has more than one section whose name starts with
\* metadata_cache and that section is one of them; every other
\* metadata_cache section is kept, and a metadata_cache section remains
\* whenever there was one.
C32_UpgradeRemovesJujuCluster ==
    [][(UpgradeStep /\ conf.exists) =>
        LET before == MetadataCacheNames(conf)
            after == MetadataCacheNames(conf')
            juju == "metadata_cache:jujuCluster"
        IN  /\ juju \in before =>
                  ((juju \notin after) <=> Cardinality(before) > 1)
            /\ juju \notin before => juju \notin after
            /\ config_last'.removed <=> (juju \in before /\ juju \notin after)
            /\ (before \ {juju}) \subseteq after
            /\ before # {} => after # {}
      ]_vars

\* An upgrade that removed the hard-coded section and kept the section of
\* the cluster
C32_Witness ==
    /\ config_last.op = "upgrade_charm"
    /\ config_last.existed
    /\ config_last.removed
    /\ config_last.restarted
    /\ MetadataCacheNames(conf) = {"metadata_cache:myCluster"}

\* C20: while mysqlrouter.conf does not exist, update_config_parameters
\* and config_changed create no file, begin no service restart and leave
\* the flags and the service as they are.
C20_MissingFileNoOp ==
    [][~conf.exists =>
        /\ conf' = conf
        /\ conf_size' = conf_size
        /\ restart' = restart
        /\ service' = service
        /\ flags' = flags
        /\ ~config_last'.restarted
      ]_vars

C20_Witness ==
    /\ ~conf.exists
    /\ config_last.op = "config_changed"
    /\ ~config_last.skipped
    /\ ~config_last.existed
    /\ patch_last.op = "update_config_parameters"
    /\ restart.status = "idle"

\* A step that is a config_changed call
ConfigStep == config_last'.calls # config_last.calls

\* C24: config_changed begins a restart of the service (the first attempt
\* of custom_restart_function) if and only if the file is not, after
\* update_config_parameters, what it was before; when the restart begins
\* the file holds the whole patch set; a call that leaves the file as it
\* was begins no restart.
C24_RestartIffFileChanged ==
    [][ConfigStep =>
        /\ config_last'.restarted <=>
              (conf' # conf \/ conf_size' # conf_size)
        /\ config_last'.restarted =>
              /\ restart' = [NoRestart EXCEPT !.status = "stop", !.attempt = 1]
              /\ conf' = UpdateConfigParameters(patch_last'.parameters, conf)
              /\ conf' = UpdateConfigParameters(patch_last'.parameters, conf')
        /\ ~config_last'.restarted =>
              /\ restart' = restart
              /\ service' = service
      ]_vars

\* A call that changed an existing file and began the restart, and then
\* nothing else
C24_Witness ==
    /\ config_last.op = "config_changed"
    /\ config_last.hook = "config-changed"
    /\ config_last.existed
    /\ config_last.changed
    /\ config_last.restarted
    /\ restart.status = "stop"
    /\ conf.exists
    /\ conf_size = WriteSize(conf)

\* C31: a config_changed call in the upgrade-charm hook does nothing: the
\* file is not read for patching (no update_config_parameters call is
\* made), it is not written, and no restart of the service begins.
C31_UpgradeHookSkips ==
    [][(ConfigStep /\ config_last'.hook = "upgrade-charm") =>
        /\ config_last'.skipped
        /\ ~config_last'.restarted
        /\ conf' = conf
        /\ conf_size' = conf_size
        /\ patch_last' = patch_last
        /\ restart' = restart
        /\ service' = service
        /\ flags' = flags
      ]_vars

\* A call in the upgrade-charm hook on a file that bootstrap generated and
\* that no call has patched yet
C31_Witness ==
    /\ config_last.op = "config_changed"
    /\ config_last.hook = "upgrade-charm"
    /\ config_last.skipped
    /\ config_last.existed
    /\ conf.exists
    /\ conf_size = WriteSize(conf) + CommentSize
    /\ patch_last.op = "none"
    /\ restart.status = "idle"

\* C33: with mysql-router 8.0.23 or later, after a config_changed call on a
\* file whose [DEFAULT] has no client_ssl_cert, [DEFAULT] has no
\* client_ssl_mode, also when the file had one; when client_ssl_cert is
\* there, client_ssl_mode is PASSTHROUGH with CA material from the cluster
\* relation and PREFERRED without.
C33_SslModeFollowsCert ==
    [][(/\ ConfigStep
        /\ ~config_last'.skipped
        /\ conf.exists
        /\ VersionGE(config_last'.pkgver, <<8, 0, 23>>)) =>
        LET before == DictKeys(ConfigRead(conf).defaults)
            after == conf'.defaults
        IN  /\ "client_ssl_cert" \notin before =>
                  "client_ssl_mode" \notin DictKeys(after)
            /\ "client_ssl_cert" \in before =>
                  /\ "client_ssl_mode" \in DictKeys(after)
                  /\ DictGet(after, "client_ssl_mode") =
                        (IF Truthy(config_last'.ssl_ca) THEN "PASSTHROUGH"
                         ELSE "PREFERRED")
      ]_vars

(***************************************************************************)
(* start_mysqlrouter, stop_mysqlrouter, restart_mysqlrouter and            *)
(* custom_assess_status_check.                                             *)
(***************************************************************************)

\* ch_core.host.service_start(self.name); set_flag(MYSQL_ROUTER_STARTED)
StartEffect(st) ==
    [service |-> "running", flags |-> st.flags \cup {MYSQL_ROUTER_STARTED}]

\* A faulty variant of StopEffect: stopping clears the started flag
StopEffectClearsStarted(st) ==
    [service |-> "stopped", flags |-> st.flags \ {MYSQL_ROUTER_STARTED}]

\* ch_core.host.service_stop(self.name)
StopEffect(st) == [service |-> "stopped", flags |-> st.flags]

\* ch_core.host.service_restart(self.name)
RestartEffect(st) == [service |-> "running", flags |-> st.flags]

\* One of the three operations, with the effect it has
ServiceCall(op, effect) ==
    /\ service' = effect.service
    /\ flags' = effect.flags
    /\ service_last' = [op |-> op,
                        before |-> [service |-> service, flags |-> flags]]
    /\ UNCHANGED <<boot_last, validate_last, handler_last, history, reqVars,
                   respVars, confVars, restartVars>>

\* MySQLRouterCharm.start_mysqlrouter()
start_mysqlrouter ==
    ServiceCall("start_mysqlrouter",
                StartEffect([service |-> service, flags |-> flags]))

\* MySQLRouterCharm.stop_mysqlrouter()
stop_mysqlrouter ==
    ServiceCall("stop_mysqlrouter",
                StopEffect([service |-> service, flags |-> flags]))

\* MySQLRouterCharm.restart_mysqlrouter()
restart_mysqlrouter ==
    ServiceCall("restart_mysqlrouter",
                RestartEffect([service |-> service, flags |-> flags]))

InitService ==
    /\ IdleRequests /\ IdleResponses /\ IdleConf /\ IdleBoot /\ IdleRestart
    /\ IdleHandlers

NextService ==
    \/ start_mysqlrouter
    \/ stop_mysqlrouter
    \/ restart_mysqlrouter
    \/ \E results \in StatusResults, outcome \in ConnectOutcomes :
          custom_assess_status_check(results, outcome)

SpecService == InitService /\ [][NextService]_vars

\* C28 (as claimed; the code does not satisfy it): restart_mysqlrouter
\* leaves the service and the flags as stop_mysqlrouter followed by
\* start_mysqlrouter would: the service running, the started flag set.
C28_RestartIsStopThenStart ==
    service_last.op = "restart_mysqlrouter" =>
        /\ [service |-> service, flags |-> flags]
              = StartEffect(StopEffect(service_last.before))
        /\ service = "running"
        /\ MYSQL_ROUTER_STARTED \in flags

\* A step that is a custom_assess_status_check call
AssessStep == assess_last'.calls # assess_last.calls

\* C29: custom_assess_status_check runs the paused, interfaces and
\* mandatory-config checks in that order and returns the first result whose
\* state is not None, without a connection attempt; when all three pass it
\* probes the connection and returns ('blocked', 'Failed to connect to
\* MySQL') when the probe fails and (None, None) when it succeeds.
C29_FirstProblemThenProbe ==
    [][AssessStep =>
        LET a == assess_last'
            n == Len(a.ran)
        IN  /\ n \in 1..Len(StatusChecks)
            /\ a.ran = SubSeq(StatusChecks, 1, n)
            /\ Len(a.results) = n
            /\ \A i \in 1..(n - 1) : a.results[i][1] = None
            /\ IF a.results[n][1] # None
               THEN /\ a.ret = a.results[n]
                    /\ ~a.probed
                    /\ last_check' = last_check
               ELSE /\ n = Len(StatusChecks)
                    /\ a.probed
                    /\ last_check'.op = "check_mysql_connection"
                    /\ last_check'.reraise_on = {}
                    /\ ~a.raised =>
                          a.ret = IF last_check'.outcome.kind = "ok"
                                  THEN <<None, None>>
                                  ELSE <<"blocked",
                                         "Failed to connect to MySQL">>
      ]_vars

\* The interfaces check reported, after a call that had probed and failed
C29_Witness ==
    /\ assess_last.op = "custom_assess_status_check"
    /\ assess_last.ran = <<"check_if_paused", "check_interfaces">>
    /\ assess_last.ret = <<"blocked", "'db-router' missing">>
    /\ ~assess_last.probed
    /\ last_check.op = "check_mysql_connection"
    /\ last_check.ret = "False"


(***************************************************************************)
(* The life of a unit: the handlers, the hooks and the operations that     *)
(* touch the flags, the file and the service, one after the other.         *)
(***************************************************************************)

\* No custom_restart_function call is under way: events are handled one at
\* a time, to completion
NoRestartUnderWay == restart.status \in {"idle", "returned", "raised"}

\* shutil.rmtree(self.mysqlrouter_working_dir) when the directory exists;
\* removed: rmtree did not raise (an exception is logged and ignored)
ConfigCleanup(file, removed) ==
    IF file.exists /\ removed THEN NoFile ELSE file

\* MySQLRouterCharm.config_cleanup()
config_cleanup(removed) ==
    /\ conf' = ConfigCleanup(conf, removed)
    /\ conf_size' = IF conf.exists /\ removed THEN 0 ELSE conf_size
    /\ UNCHANGED <<patch_last, config_last, reqVars, respVars, bootVars,
                   restartVars, handVars>>

\* What the command does in this world: it leaves the usual file, or it
\* fails, leaving the file alone or truncated
LifecycleResults ==
    {r \in BinaryResults :
        /\ ~r.crashed
        /\ r.success => r.size = 1600}

\* The installed version and the charm options of this world
LifecycleVersion == <<8, 0, 22>>
LifecycleOptions == CHOOSE options \in ConfigOptionsPool : ~options.debug

\* What the connection through the router does in this world
LifecycleConnects ==
    {[kind |-> "ok", code |-> 0], [kind |-> "OperationalError", code |-> 1045]}

\* The charm is installed and the cluster has answered on db-router;
\* nothing else has happened
InitLifecycle ==
    /\ IdleRequests /\ IdleResponses /\ IdleConf /\ IdleRestart /\ IdleHandlers
    /\ flags = {CHARM_INSTALLED, DB_ROUTER_AVAILABLE}
    /\ boot_last = NoBootstrap
    /\ validate_last = NoValidate

NextLifecycle ==
    \/ \E password_raw \in BootPasswordPool, result \in LifecycleResults :
          handler_bootstrap_mysqlrouter(LifecycleVersion, password_raw, result)
    \/ handler_start_mysqlrouter
    \/ stop_mysqlrouter
    \/ restart_mysqlrouter
    \/ \E password_raw \in BootPasswordPool, write_ok \in BOOLEAN,
          result \in LifecycleResults :
          bootstrap_mysqlrouter(TRUE, LifecycleVersion, password_raw,
                                write_ok, result)
    \/ \E removed \in BOOLEAN : config_cleanup(removed)

SpecLifecycle == InitLifecycle /\ [][NextLifecycle]_vars

\* The hooks that reconcile the file and restart the service, among the
\* handlers
NextReconcile ==
    \/ \E password_raw \in BootPasswordPool, result \in LifecycleResults :
          /\ NoRestartUnderWay
          /\ handler_bootstrap_mysqlrouter(LifecycleVersion, password_raw,
                                           result)
    \/ NoRestartUnderWay /\ handler_start_mysqlrouter
    \/ /\ NoRestartUnderWay
       /\ config_changed("config-changed", LifecycleOptions,
                         LifecycleVersion, None)
    \/ /\ NoRestartUnderWay
       /\ upgrade_charm(LifecycleOptions, LifecycleVersion, None)
    \/ service_stop
    \/ service_start
    \/ \E outcome \in LifecycleConnects : retry_conection_check(outcome)

SpecReconcile == InitLifecycle /\ [][NextReconcile]_vars

\* C37: no operation clears the bootstrapped flag or the started flag: a
\* flag that is set stays set in every later state, also after
\* stop_mysqlrouter, a forced bootstrap that fails and config_cleanup.
C37_FlagsNeverCleared ==
    [][/\ MYSQL_ROUTER_BOOTSTRAPPED \in flags
          => MYSQL_ROUTER_BOOTSTRAPPED \in flags'
       /\ MYSQL_ROUTER_STARTED \in flags => MYSQL_ROUTER_STARTED \in flags'
      ]_vars

\* Both flags set although the service was stopped, a forced bootstrap has
\* failed since and config_cleanup has removed the file
C37_Witness ==
    /\ {MYSQL_ROUTER_BOOTSTRAPPED, MYSQL_ROUTER_STARTED} \subseteq flags
    /\ service_last.op = "stop_mysqlrouter"
    /\ service = "stopped"
    /\ boot_last.force
    /\ boot_last.was_bootstrapped
    /\ boot_last.outcome = "failed"
    /\ ~conf.exists

\* C38 (as claimed; the code does not satisfy it): the service is started,
\* by the start handler or by service_start in the restart that
\* config_changed and upgrade_charm begin, only while the bootstrapped flag
\* is set.
C38_StartedOnlyBootstrapped ==
    [][(\/ restart'.starts # restart.starts
        \/ (service # "running" /\ service' = "running"))
       => MYSQL_ROUTER_BOOTSTRAPPED \in flags
      ]_vars

====
